---- MODULE Spec2Model ----
(***************************************************************************)
(* Model of the Stavily agent client (stavily_agent_client.py): a JSON-RPC *)
(* client over a Unix domain socket with a request-id counter, a          *)
(* connection flag and a retrying connect().  One caller drives the       *)
(* client; what the socket round trip of a call gives is an input drawn   *)
(* where _call makes the round trip.                                      *)
(***************************************************************************)
EXTENDS Integers, Sequences, FiniteSets, TLC

\* ---------------------------------------------------------------- bounds
\* calls (request ids) one behaviour may issue
MaxCalls == 4
\* largest max_retries a client is constructed with
MaxRetries == 3
\* longest list handed to upload_logs
MaxLogs == 2
\* calls one thread issues when _call is followed statement by statement
MaxThreadCalls == 2
\* cycles the monitor loop is followed for
MaxCycles == 2

\* nesting depth of the samples an event is built from
MaxDepth == 2

\* with blocks one client is followed through
MaxSessions == 2

\* ---------------------------------------------------------------- state
VARIABLES
    request_id,      \* self._request_id
    connected,       \* self._connected
    max_retries,     \* self.max_retries
    pc,              \* "idle", or "connect" while connect() is in its retry loop
    attempt,         \* connect(): loop index
    last_error,      \* connect(): last_error
    sleeps,          \* connect(): time.sleep(retry_delay) calls made so far
    entry,           \* connect(): counters observed when the loop was entered
    request,         \* _call(): the envelope built last
    issued_ids,      \* the ids placed in envelopes so far, in issue order
    sockets_opened,  \* sockets created so far
    sockets_closed,  \* sockets closed so far
    last             \* the last finished operation: its argument, what the socket
                     \* gave and what the caller observed

\* Callers that are followed statement by statement through _call (none when
\* the operations are taken as single steps).
VARIABLES
    threads          \* thread -> its position in _call and its locals

\* The monitor (src/src/monitoring/monitor.py) and its caller.
VARIABLES
    config,           \* the configuration mapping handed to the constructor
    caller,           \* who builds the monitor, and whether a callback is passed
    mpc,              \* position of the caller / of start_monitoring
    monitor_interval, \* SystemMonitor.monitor_interval
    cpu_trigger,      \* SystemMonitor.cpu_trigger
    mem_trigger,      \* SystemMonitor.mem_trigger
    cycle_count,      \* start_monitoring's cycle_count
    data,             \* the sample of the current cycle
    triggered,        \* should_trigger's local `triggered`
    error,            \* the exception that left the constructor or the loop
    obs               \* what an observer counted (sampler pulls, this cycle's steps)

\* A trigger event on its way from a sample to its JSON text and back.
VARIABLES
    event             \* the sample, the event built, its text, the text parsed

\* A caller inside `with client.session() as client:`.
VARIABLES
    session           \* position in the with block and what came out of it

\* A caller of the plugin's samplers (src/src/core/plugin.py).
VARIABLES
    sampling          \* the extractors' outcomes and the sample being built

\* A caller of the validators (src/src/utils/validation.py).
VARIABLES
    validation        \* the configuration handed in and what the validator did

monitor_vars ==
    <<config, caller, mpc, monitor_interval, cpu_trigger, mem_trigger,
      cycle_count, data, triggered, error, obs>>

client_vars ==
    <<request_id, connected, max_retries, pc, attempt, last_error, sleeps,
      entry, request, issued_ids, sockets_opened, sockets_closed, last>>

vars == <<request_id, connected, max_retries, pc, attempt, last_error, sleeps,
          entry, request, issued_ids, sockets_opened, sockets_closed, last,
          threads, monitor_vars, event, session, sampling, validation>>

\* ------------------------------------------------------- error taxonomy
\* "none" stands for a normal return.
NoError == "none"

\* class StavilyAgentError and its subclasses
StavilyAgentErrorKinds ==
    {"StavilyAgentError", "ConnectionError", "RPCError", "TimeoutError"}

\* isinstance(e, StavilyAgentError)
IsStavilyAgentError(kind) == kind \in StavilyAgentErrorKinds

\* ------------------------------------------------ what the peer can do
\* The keys upload_logs requires of every entry.
RequiredLogKeys == {"level", "message", "timestamp"}

\* Log entries (by the keys they carry) and the lists handed to upload_logs.
LogEntries == {RequiredLogKeys, {"level"}, {"level", "message"}}
LogLists == UNION {[1..n -> LogEntries] : n \in 0..MaxLogs}

\* Arguments of the other operations.
TriggerNames == {"cpu_high", "memory_high"}
Sections == {"plugin_section"}
NoArg == "none"

\* Error objects a peer may answer with; code/message absent models a
\* malformed error object.
ErrorObjects ==
    {[has_code |-> TRUE, code |-> -32601, has_message |-> TRUE,
      message |-> "method not found", data |-> "absent"],
     [has_code |-> TRUE, code |-> -32000, has_message |-> TRUE,
      message |-> "server error", data |-> "detail"],
     [has_code |-> FALSE, code |-> 0, has_message |-> TRUE,
      message |-> "method not found", data |-> "absent"]}

\* Keys a result mapping may carry (the ones the client decodes).
ResultKeys == {"agent_id", "version", "environment", "config"}

ResultKeySets ==
    {{}, {"agent_id"}, {"agent_id", "version", "environment"}, {"config"}}

\* Result members a peer may answer with: none at all, a value that is not a
\* mapping, or a mapping with some of the keys.
NoResult == [kind |-> "absent", keys |-> {}]
Results ==
    {NoResult} \cup [kind : {"scalar"}, keys : {{}}]
    \cup [kind : {"mapping"}, keys : ResultKeySets]

NoErrorObject ==
    [has_code |-> FALSE, code |-> 0, has_message |-> FALSE,
     message |-> "", data |-> "absent"]

\* No call made yet.
NoResponse == [t |-> "none", error |-> NoErrorObject, result |-> NoResult]

\* Everything one socket round trip can end in.
Responses ==
    [t : {"socket_error", "timeout", "empty", "undecodable", "non_json", "json_array"},
     error : {NoErrorObject}, result : {NoResult}]
    \cup
    [t : {"error_object"}, error : ErrorObjects, result : {NoResult}]
    \cup
    [t : {"result_object"}, error : {NoErrorObject}, result : Results]


\* ---------------------------------------------------------------- _call
\* (variant: the counter advanced by two)
get_next_request_id_skip(rid) == rid + 2

\* self._request_id += 1; return self._request_id
get_next_request_id(rid) == rid + 1

\* (variant: the except clauses in the other order, socket.error first, which
\* also catches socket.timeout)
call_exc_socket_first(resp) ==
    CASE resp.t \in {"timeout", "socket_error", "empty"} -> "ConnectionError"
      [] resp.t = "undecodable"   -> "UnicodeDecodeError"
      [] resp.t = "non_json"      -> "StavilyAgentError"
      [] resp.t = "json_array"    -> "AttributeError"
      [] resp.t = "error_object"  ->
            IF resp.error.has_code /\ resp.error.has_message
            THEN "RPCError" ELSE "KeyError"
      [] resp.t = "result_object" -> NoError

\* The exception _call ends in for a given socket outcome ("none": returns).
call_exc(resp) ==
    CASE resp.t = "timeout"       -> "TimeoutError"
      [] resp.t = "socket_error"  -> "ConnectionError"
      [] resp.t = "empty"         -> "ConnectionError"
      [] resp.t = "undecodable"   -> "UnicodeDecodeError"
      [] resp.t = "non_json"      -> "StavilyAgentError"
      [] resp.t = "json_array"    -> "AttributeError"
      [] resp.t = "error_object"  ->
            IF resp.error.has_code /\ resp.error.has_message
            THEN "RPCError" ELSE "KeyError"
      [] resp.t = "result_object" -> NoError

\* (variant: RPCError built without the peer's data member)
call_outcome_no_data(resp) ==
    LET exc == call_exc(resp) IN
    [exc  |-> exc,
     response |-> resp,
     cause |-> resp.t,
     code |-> IF exc = "RPCError" THEN resp.error.code ELSE 0,
     message |-> IF exc = "RPCError" THEN resp.error.message ELSE "",
     data |-> "absent",
     ret  |-> IF exc = NoError THEN resp.result ELSE NoResult]

\* What the caller of _call observes: the exception with its fields, or the
\* returned result member.
call_outcome(resp) ==
    LET exc == call_exc(resp) IN
    [exc  |-> exc,
     response |-> resp,
     cause |-> resp.t,
     code |-> IF exc = "RPCError" THEN resp.error.code ELSE 0,
     message |-> IF exc = "RPCError" THEN resp.error.message ELSE "",
     data |-> IF exc = "RPCError" THEN resp.error.data ELSE "absent",
     ret  |-> IF exc = NoError THEN resp.result ELSE NoResult]

\* An exception raised by the client itself, outside _call.
raised(exc, cause) ==
    [exc |-> exc, response |-> NoResponse, cause |-> cause, code |-> 0, message |-> "", data |-> "absent",
     ret |-> NoResult]

\* A normal return of a value.
returned(ret) ==
    [exc |-> NoError, response |-> NoResponse, cause |-> "", code |-> 0, message |-> "", data |-> "absent",
     ret |-> ret]

\* The envelope of a request.
envelope(method, has_params, id) ==
    [jsonrpc |-> "2.0", method |-> method, id |-> id, has_params |-> has_params]

\* State effect of one _call: one id, one envelope, one socket opened and
\* closed.
call(method, has_params, resp) ==
    /\ request_id' = get_next_request_id(request_id)
    /\ request' = envelope(method, has_params, request_id')
    /\ issued_ids' = Append(issued_ids, request'.id)
    /\ sockets_opened' = sockets_opened + 1
    /\ sockets_closed' = sockets_closed + 1

no_call_vars == <<request_id, request, issued_ids, sockets_opened, sockets_closed>>

no_call == UNCHANGED no_call_vars

\* What the caller observed of a finished operation.
observed(op, argument, was_connected, out, attempts, slept, id0, sock0) ==
    [op |-> op, arg |-> argument, was_connected |-> was_connected,
     response |-> out.response, exc |-> out.exc,
     code |-> out.code, message |-> out.message, data |-> out.data,
     ret |-> out.ret, cause |-> out.cause,
     attempts |-> attempts, slept |-> slept,
     ids_used |-> request_id' - id0,
     sockets |-> sockets_opened' - sock0,
     is_connected |-> connected']

connect_locals == <<attempt, last_error, sleeps, entry>>

\* max_retries when the constructor is given none
DefaultMaxRetries == 3

\* No caller is followed through _call.
NoThreads == <<>>

\* Everything outside the client object.
\* No event is followed.
NoEvent == [stage |-> "off"]

\* No with block is followed.
NoSession == [pc |-> "off"]

\* No sampler is being called.
NoSampling == [pc |-> "off"]

\* No validator is being called.
NoValidation == [pc |-> "off"]

outside_client == <<threads, monitor_vars, event, session, sampling, validation>>

\* What the monitor leaves alone besides the client.
aside == <<threads, event, session, sampling, validation>>

\* ------------------------------------------------------------ monitor data
\* A configuration mapping: the keys present and their values.
config_of(keys, cpu, mem, interval) ==
    [keys |-> keys, cpu_trigger_percentage |-> cpu,
     mem_trigger_percentage |-> mem, monitor_interval |-> interval]

AllConfigKeys == {"cpu_trigger_percentage", "mem_trigger_percentage", "monitor_interval"}

\* The thresholds of the test suite, each check disabled, values outside the
\* validated ranges, interval 0, and the empty mapping.
Configs ==
    {config_of(AllConfigKeys, 80, 85, 30),
     config_of(AllConfigKeys, 0, 0, 30),
     config_of(AllConfigKeys, 80, 0, 30),
     config_of(AllConfigKeys, 0, 85, 30),
     config_of(AllConfigKeys, 150, 85, 30),
     config_of(AllConfigKeys, 80, 85, -5),
     config_of(AllConfigKeys, 80, 85, 0),
     config_of({}, 0, 0, 0)}

NoConfig == config_of({}, 0, 0, 0)

\* config.get(key, default)
config_get(cfg, key, default) == IF key \in cfg.keys THEN cfg[key] ELSE default

\* Who runs the monitor: the plugin (no callback, samples from its extractors)
\* or a program that builds SystemMonitor itself and passes its own sampler
\* and callback.
Callers ==
    {[via |-> "plugin", callback |-> FALSE],
     [via |-> "monitor", callback |-> TRUE]}

NoCaller == [via |-> "none", callback |-> FALSE]

\* One metric of a sample: its section missing, its field missing, null, a
\* text, or a number.
metric(kind, value) == [kind |-> kind, value |-> value]
number(value) == metric("number", value)

CpuMetrics ==
    {metric("no_section", 0), metric("no_field", 0), metric("null", 0),
     metric("text", 0), number(80), number(85), number(99)}

MemMetrics ==
    {metric("no_section", 0), metric("no_field", 0), metric("null", 0),
     metric("text", 0), number(50), number(85), number(99)}

NoData == [cpu |-> metric("no_section", 0), memory |-> metric("no_section", 0)]

\* Samples: every cpu metric next to a quiet memory, every memory metric next
\* to a quiet cpu, and both metrics high.
AnySamples ==
    {[cpu |-> c, memory |-> number(50)] : c \in CpuMetrics}
    \cup {[cpu |-> number(80), memory |-> m] : m \in MemMetrics}
    \cup {[cpu |-> number(99), memory |-> number(99)]}

\* What the plugin's own extractors can deliver: cpu_percent is a number or
\* None, memory percent a number; either may be missing.
extractor_sample(sample) ==
    /\ sample.cpu.kind # "text"
    /\ sample.memory.kind \notin {"text", "null"}

Samples(via) ==
    IF via = "plugin" THEN {sample \in AnySamples : extractor_sample(sample)}
    ELSE AnySamples

\* What an observer has counted.  Since the loop started: the sampler pulls,
\* the arguments of time.sleep, where cancellation struck, the stop and error
\* logs, and where an exception entered the loop's handler and which.  In the
\* current cycle: its steps in order, the checks made and fired, the
\* report_trigger calls and how many of them raised, the callback calls and
\* the lines printed.
NoObs ==
    [pulls |-> 0, sleep_calls |-> <<>>, cancelled |-> <<>>, stop_logs |-> 0,
     error_logs |-> 0, raised_in |-> "none", original |-> NoError,
     order |-> <<>>, uploads |-> 0, cpu_checked |-> FALSE, cpu_fired |-> FALSE,
     mem_checked |-> FALSE, mem_fired |-> FALSE, evaluated |-> FALSE,
     reports |-> <<>>, report_failures |-> 0,
     emitted |-> 0, callbacks |-> 0, lines |-> <<>>, slept |-> 0]

\* The observer at the start of a cycle: the per-cycle part is cleared.
next_cycle(o) ==
    [NoObs EXCEPT !.pulls = o.pulls, !.sleep_calls = o.sleep_calls,
                  !.cancelled = o.cancelled, !.stop_logs = o.stop_logs,
                  !.error_logs = o.error_logs, !.raised_in = o.raised_in,
                  !.original = o.original]

\* No monitor exists.
monitor_off ==
    /\ config = NoConfig
    /\ caller = NoCaller
    /\ mpc = "off"
    /\ monitor_interval = 0
    /\ cpu_trigger = 0
    /\ mem_trigger = 0
    /\ cycle_count = 0
    /\ data = NoData
    /\ triggered = FALSE
    /\ error = NoError
    /\ obs = NoObs

\* Calls a behaviour may make: MaxCalls for a client used on its own; the
\* monitor is bounded by its cycles and is given room for the pings of
\* connect(), the start, stop and error logs and three calls per cycle.
call_budget ==
    IF mpc = "off" THEN MaxCalls
    ELSE MaxCalls + DefaultMaxRetries + 3 * MaxCycles + 3

\* ------------------------------------------------------------ __init__
\* StavilyAgentClient(socket_path, max_retries=...) just constructed.
new_client ==
    /\ request_id = 0
    /\ connected = FALSE
    /\ max_retries \in 0..MaxRetries
    /\ pc = "idle"
    /\ attempt = 0
    /\ last_error = NoError
    /\ sleeps = 0
    /\ entry = [id |-> 0, sock |-> 0, connected |-> FALSE]
    /\ request = envelope("", FALSE, 0)
    /\ issued_ids = <<>>
    /\ sockets_opened = 0
    /\ sockets_closed = 0
    /\ last = [op |-> "__init__", arg |-> NoArg, was_connected |-> FALSE,
               response |-> NoResponse, exc |-> NoError,
               code |-> 0, message |-> "", data |-> "absent", ret |-> NoResult,
               cause |-> "", attempts |-> 0, slept |-> 0, ids_used |-> 0,
               sockets |-> 0, is_connected |-> FALSE]

Init ==
    /\ new_client
    /\ threads = NoThreads
    /\ monitor_off
    /\ event = NoEvent
    /\ session = NoSession
    /\ sampling = NoSampling
    /\ validation = NoValidation

\* ------------------------------------------------------------- connect
\* (variant: no early return for a connected client)
connect_reprobe ==
    /\ pc = "idle"
    /\ no_call
    /\ UNCHANGED <<connected, max_retries, last>>
    /\ pc' = "connect"
    /\ attempt' = 0
    /\ last_error' = NoError
    /\ sleeps' = 0
    /\ entry' = [id |-> request_id, sock |-> sockets_opened, connected |-> connected]

\* connect() up to the retry loop: returns at once when already connected.
connect ==
    /\ pc = "idle"
    /\ no_call
    /\ UNCHANGED <<connected, max_retries>>
    /\ IF connected
       THEN /\ last' = observed("connect", NoArg, connected, returned(NoResult), 0, 0,
                                request_id, sockets_opened)
            /\ UNCHANGED <<pc, connect_locals>>
       ELSE /\ pc' = "connect"
            /\ attempt' = 0
            /\ last_error' = NoError
            /\ sleeps' = 0
            /\ entry' = [id |-> request_id, sock |-> sockets_opened,
                          connected |-> connected]
            /\ UNCHANGED last

\* (variant: an RPC error answer also counts as a reachable agent)
ping_succeeded_lenient(out) == out.exc \in {NoError, "RPCError"}

\* Did this ping make connect() succeed?  (_call returned without raising)
ping_succeeded(out) == out.exc = NoError

\* (variant: range(self.max_retries))
range_stop_short(retries) == retries

\* range(self.max_retries + 1): the loop runs for attempt = 0 .. stop - 1
range_stop(retries) == retries + 1

\* (variant: the delay slept after every failed attempt)
sleeps_after_every_failure(att, retries) == att <= retries

\* if attempt < self.max_retries: warn and sleep
sleeps_after(att, retries) == att < retries

\* connect() returns or raises: its locals are gone.
connect_returns ==
    /\ attempt' = 0
    /\ last_error' = NoError
    /\ sleeps' = 0

\* One iteration of connect()'s loop: a ping, then either success, or the
\* except block and the next iteration, or ConnectionError once the range
\* is used up.
connect_attempt ==
    /\ pc = "connect"
    /\ request_id < call_budget
    /\ UNCHANGED <<max_retries, entry>>
    /\ IF attempt < range_stop(max_retries)
       THEN \E resp \in Responses :
            /\ call("ping", FALSE, resp)
            /\ LET out == call_outcome(resp)
                   slept == IF sleeps_after(attempt, max_retries)
                            THEN sleeps + 1 ELSE sleeps
               IN
               IF ping_succeeded(out)
               THEN /\ connected' = TRUE
                    /\ pc' = "idle"
                    /\ connect_returns
                    /\ last' = observed("connect", NoArg, entry.connected,
                                        [out EXCEPT !.ret = NoResult],
                                        attempt + 1, sleeps, entry.id, entry.sock)
               ELSE /\ UNCHANGED connected
                    /\ IF attempt + 1 < range_stop(max_retries)
                       THEN /\ last_error' = out.exc
                            /\ sleeps' = slept
                            /\ attempt' = attempt + 1
                            /\ UNCHANGED <<pc, last>>
                       ELSE /\ pc' = "idle"
                            /\ connect_returns
                            /\ last' = observed("connect", NoArg, entry.connected,
                                                [raised("ConnectionError", out.exc)
                                                   EXCEPT !.response = resp],
                                                attempt + 1, slept, entry.id, entry.sock)
       ELSE \* an empty range: no attempt at all
            /\ no_call
            /\ UNCHANGED connected
            /\ connect_returns
            /\ pc' = "idle"
            /\ last' = observed("connect", NoArg, entry.connected,
                                raised("ConnectionError", last_error),
                                attempt, sleeps, entry.id, entry.sock)

\* ---------------------------------------------------------- disconnect
\* (variant: the flag flipped instead of cleared)
disconnect_toggle ==
    /\ pc = "idle"
    /\ connected' = ~connected
    /\ no_call
    /\ UNCHANGED <<max_retries, pc, connect_locals>>
    /\ last' = observed("disconnect", NoArg, connected, returned(NoResult), 0, 0,
                        request_id, sockets_opened)

disconnect ==
    /\ pc = "idle"
    /\ connected' = FALSE
    /\ no_call
    /\ UNCHANGED <<max_retries, pc, connect_locals>>
    /\ last' = observed("disconnect", NoArg, connected, returned(NoResult), 0, 0,
                        request_id, sockets_opened)

\* -------------------------------------------------------- is_connected
is_connected ==
    /\ pc = "idle"
    /\ no_call
    /\ UNCHANGED <<connected, max_retries, pc, connect_locals>>
    /\ last' = observed("is_connected", NoArg, connected, returned(NoResult), 0, 0,
                        request_id, sockets_opened)

\* ------------------------------------------------------ report_trigger
not_connected == raised("ConnectionError", "not_connected")

\* (variant: a failed call drops the connection)
report_trigger_autodisconnect(trigger_name) ==
    /\ pc = "idle"
    /\ UNCHANGED <<max_retries, pc, connect_locals>>
    /\ IF ~connected
       THEN /\ no_call
            /\ UNCHANGED connected
            /\ last' = observed("report_trigger", trigger_name, connected, not_connected,
                                0, 0, request_id, sockets_opened)
       ELSE \E resp \in Responses :
            /\ request_id < call_budget
            /\ call("report_trigger", TRUE, resp)
            /\ connected' = (call_exc(resp) = NoError)
            /\ last' = observed("report_trigger", trigger_name, connected,
                                call_outcome(resp), 0, 0, request_id, sockets_opened)

report_trigger(trigger_name) ==
    /\ pc = "idle"
    /\ UNCHANGED <<connected, max_retries, pc, connect_locals>>
    /\ IF ~connected
       THEN /\ no_call
            /\ last' = observed("report_trigger", trigger_name, connected, not_connected, 0, 0,
                                request_id, sockets_opened)
       ELSE \E resp \in Responses :
            /\ request_id < call_budget
            /\ call("report_trigger", TRUE, resp)
            /\ last' = observed("report_trigger", trigger_name, connected, call_outcome(resp), 0, 0,
                                request_id, sockets_opened)

\* KeyboardInterrupt delivered while _call of a connected client blocks in
\* sock.connect, sendall or recv: the id is taken, the finally closes the
\* socket, and no except clause of _call or of the operation catches it.
interrupted(op, argument) ==
    /\ pc = "idle"
    /\ connected
    /\ UNCHANGED <<connected, max_retries, pc, connect_locals>>
    /\ request_id < call_budget
    /\ call(op, op # "get_agent_info", NoResponse)
    /\ last' = observed(op, argument, connected,
                        raised("KeyboardInterrupt", "interrupted"), 0, 0,
                        request_id, sockets_opened)

\* --------------------------------------------------------- upload_logs
\* (variant: only the level key is looked for)
entry_ok_level_only(log_entry) == "level" \in log_entry

\* all(key in log_entry for key in ['level', 'message', 'timestamp'])
entry_ok(log_entry) == \A key \in RequiredLogKeys : key \in log_entry

\* the validation loop over the entries: TRUE when no entry raises
RECURSIVE logs_ok(_)
logs_ok(logs) ==
    IF logs = <<>> THEN TRUE
    ELSE IF ~entry_ok(Head(logs)) THEN FALSE
    ELSE logs_ok(Tail(logs))

\* (variant: the entries validated before the connection state is looked at)
upload_logs_validate_first(logs) ==
    /\ pc = "idle"
    /\ UNCHANGED <<connected, max_retries, pc, connect_locals>>
    /\ IF ~logs_ok(logs)
       THEN /\ no_call
            /\ last' = observed("upload_logs", logs, connected,
                                raised("ValueError", "log_entry_fields"), 0, 0,
                                request_id, sockets_opened)
       ELSE IF ~connected
       THEN /\ no_call
            /\ last' = observed("upload_logs", logs, connected, not_connected, 0, 0,
                                request_id, sockets_opened)
       ELSE \E resp \in Responses :
            /\ request_id < call_budget
            /\ call("upload_logs", TRUE, resp)
            /\ last' = observed("upload_logs", logs, connected, call_outcome(resp), 0, 0,
                                request_id, sockets_opened)

upload_logs(logs) ==
    /\ pc = "idle"
    /\ UNCHANGED <<connected, max_retries, pc, connect_locals>>
    /\ IF ~connected
       THEN /\ no_call
            /\ last' = observed("upload_logs", logs, connected, not_connected, 0, 0,
                                request_id, sockets_opened)
       ELSE IF ~logs_ok(logs)
       THEN /\ no_call
            /\ last' = observed("upload_logs", logs, connected,
                                raised("ValueError", "log_entry_fields"), 0, 0,
                                request_id, sockets_opened)
       ELSE \E resp \in Responses :
            /\ request_id < call_budget
            /\ call("upload_logs", TRUE, resp)
            /\ last' = observed("upload_logs", logs, connected, call_outcome(resp), 0, 0,
                                request_id, sockets_opened)

\* ------------------------------------------------------ get_agent_info
\* result.get(key, "unknown")
field_or_unknown(result, key) == IF key \in result.keys THEN key ELSE "unknown"

\* AgentInfo(...) built from the result; a result that is no mapping has no
\* get() and the attribute lookup raises.
decode_agent_info(out) ==
    IF out.exc # NoError THEN out
    ELSE IF out.ret.kind # "mapping"
    THEN [raised("AttributeError", out.ret.kind) EXCEPT !.response = out.response]
    ELSE [out EXCEPT !.ret =
              [kind |-> "AgentInfo",
               agent_id |-> field_or_unknown(out.ret, "agent_id"),
               version |-> field_or_unknown(out.ret, "version"),
               environment |-> field_or_unknown(out.ret, "environment")]]

get_agent_info ==
    /\ pc = "idle"
    /\ UNCHANGED <<connected, max_retries, pc, connect_locals>>
    /\ IF ~connected
       THEN /\ no_call
            /\ last' = observed("get_agent_info", NoArg, connected, not_connected, 0, 0,
                                request_id, sockets_opened)
       ELSE \E resp \in Responses :
            /\ request_id < call_budget
            /\ call("get_agent_info", FALSE, resp)
            /\ last' = observed("get_agent_info", NoArg, connected,
                                decode_agent_info(call_outcome(resp)), 0, 0,
                                request_id, sockets_opened)

\* ---------------------------------------------------------- get_config
\* result.get("config", {})
decode_config(out) ==
    IF out.exc # NoError THEN out
    ELSE IF out.ret.kind # "mapping"
    THEN [raised("AttributeError", out.ret.kind) EXCEPT !.response = out.response]
    ELSE [out EXCEPT !.ret =
              [kind |-> "config",
               config |-> IF "config" \in out.ret.keys THEN "config" ELSE "empty"]]

\* (variant: the connected check left out)
get_config_unchecked(section) ==
    /\ pc = "idle"
    /\ UNCHANGED <<connected, max_retries, pc, connect_locals>>
    /\ \E resp \in Responses :
         /\ request_id < call_budget
         /\ call("get_config", TRUE, resp)
         /\ last' = observed("get_config", section, connected,
                             decode_config(call_outcome(resp)), 0, 0,
                             request_id, sockets_opened)

get_config(section) ==
    /\ pc = "idle"
    /\ UNCHANGED <<connected, max_retries, pc, connect_locals>>
    /\ IF ~connected
       THEN /\ no_call
            /\ last' = observed("get_config", section, connected, not_connected, 0, 0,
                                request_id, sockets_opened)
       ELSE \E resp \in Responses :
            /\ request_id < call_budget
            /\ call("get_config", TRUE, resp)
            /\ last' = observed("get_config", section, connected,
                                decode_config(call_outcome(resp)), 0, 0,
                                request_id, sockets_opened)

\* ---------------------------------------------------------------- Next
Next ==
    \/ connect /\ UNCHANGED outside_client
    \/ connect_attempt /\ UNCHANGED outside_client
    \/ disconnect /\ UNCHANGED outside_client
    \/ is_connected /\ UNCHANGED outside_client
    \/ \E name \in TriggerNames : report_trigger(name) /\ UNCHANGED outside_client
    \/ \E logs \in LogLists : upload_logs(logs) /\ UNCHANGED outside_client
    \/ get_agent_info /\ UNCHANGED outside_client
    \/ \E section \in Sections : get_config(section) /\ UNCHANGED outside_client

Spec == Init /\ [][Next]_vars

\* ------------------------------------------------------------ properties
RpcOps == {"report_trigger", "upload_logs", "get_agent_info", "get_config"}

\* C1: the ids placed in the envelopes of the N calls issued so far are
\* exactly 1, 2, ..., N in issue order, whatever the outcome of each call.
C1_RequestIdsAreOneToN ==
    /\ \A i \in 1..Len(issued_ids) : issued_ids[i] = i
    /\ request_id = Len(issued_ids)

\* several calls of different methods were issued, the last one failing in
\* the transport
C1_Witness ==
    /\ Len(issued_ids) >= 3
    /\ last.op \in RpcOps
    /\ last.exc = "TimeoutError"
    /\ request.id = Len(issued_ids)

\* C2: a fresh client is Disconnected, and the state becomes Connected only
\* in a step in which a ping issued by connect() got a response object that
\* carried no error member.
C2_ConnectedOnlyAfterPing ==
    /\ ~connected
    /\ [][(~connected /\ connected') =>
            /\ last'.op = "connect"
            /\ request'.method = "ping"
            /\ request'.id = request_id + 1
            /\ last'.response.t = "result_object"]_vars

\* connect() succeeded on a later attempt, after failed pings
C2_Witness ==
    /\ connected
    /\ last.op = "connect"
    /\ last.attempts >= 2

\* C3: only connect() and disconnect() change the connection state; the four
\* RPC operations and is_connected leave it as it was on every outcome.
C3_OnlyConnectDisconnectChangeState ==
    [][/\ (connected' # connected) => last'.op \in {"connect", "disconnect"}
       /\ (last' # last /\ last'.op \in RpcOps \cup {"is_connected"}) =>
              /\ connected' = connected
              /\ last'.is_connected = last'.was_connected]_vars

\* a Connected client after a failed RPC call
C3_Witness ==
    /\ connected
    /\ last.op = "report_trigger"
    /\ last.was_connected
    /\ last.exc \in {"TimeoutError", "ConnectionError", "StavilyAgentError", "RPCError"}

\* C4: a connect() that fails has issued exactly max_retries + 1 pings, fails
\* with ConnectionError describing the last attempt's error and leaves the
\* client Disconnected; a connect() in progress has never issued more than
\* max_retries pings before its last one.
C4_ConnectExhaustion ==
    /\ (last.op = "connect" /\ last.exc # NoError) =>
          /\ last.exc = "ConnectionError"
          /\ last.ids_used = max_retries + 1
          /\ last.sockets = max_retries + 1
          /\ last.attempts = max_retries + 1
          /\ last.response.t # "result_object"
          /\ last.cause = call_exc(last.response)
          /\ ~last.is_connected
          /\ ~connected
    /\ pc = "connect" =>
          /\ request_id - entry.id <= max_retries
          /\ ~connected

\* max_retries = 3: four pings, then ConnectionError
C4_Witness ==
    /\ last.op = "connect"
    /\ last.exc = "ConnectionError"
    /\ max_retries = 3
    /\ last.ids_used = 4

\* C5: connect() on a Connected client returns without error, opens no
\* socket, consumes no request id and leaves the client Connected.
C5_ConnectWhenConnectedIsNoOp ==
    (last.op = "connect" /\ last.was_connected) =>
        /\ last.exc = NoError
        /\ last.ids_used = 0
        /\ last.sockets = 0
        /\ last.attempts = 0
        /\ last.is_connected
        /\ connected

\* connect() was called on a client an earlier connect() had connected
C5_Witness ==
    /\ last.op = "connect"
    /\ last.was_connected
    /\ request_id >= 1

\* C6: after disconnect(), from either state, is_connected() is false, no
\* socket was opened and no request id consumed.
C6_DisconnectIdempotent ==
    last.op = "disconnect" =>
        /\ ~last.is_connected
        /\ ~connected
        /\ last.exc = NoError
        /\ last.ids_used = 0
        /\ last.sockets = 0

\* disconnect() called on a client that is already Disconnected (the second
\* call), after the client had issued calls
C6_Witness ==
    /\ last.op = "disconnect"
    /\ ~last.was_connected
    /\ request_id >= 1

\* The kind a transport failure on a Connected client produces.
TransportFailureKind == "ConnectionError"

\* C7 (as stated): an RPC operation on a Disconnected client fails before any
\* I/O, without a request id, with a kind that differs from the kind of a
\* transport failure.
C7_NotConnectedIsOwnKind ==
    (last.op \in RpcOps /\ ~last.was_connected) =>
        /\ last.exc # NoError
        /\ last.ids_used = 0
        /\ last.sockets = 0
        /\ last.exc # TransportFailureKind

\* C7 (amended): an RPC operation on a Disconnected client fails before any
\* I/O, without a request id, with ConnectionError ("Not connected to
\* agent"), the same kind a transport failure produces.
C7_NotConnectedIsConnectionError ==
    (last.op \in RpcOps /\ ~last.was_connected) =>
        /\ last.exc = "ConnectionError"
        /\ last.cause = "not_connected"
        /\ last.exc = TransportFailureKind
        /\ last.ids_used = 0
        /\ last.sockets = 0
        /\ last.response = NoResponse

\* get_config was called on a Disconnected client
C7_Witness ==
    /\ last.op = "get_config"
    /\ ~last.was_connected
    /\ last.exc = "ConnectionError"

\* Some entry of the list lacks a required key.
lacks_key(logs) ==
    \E i \in DOMAIN logs : \E key \in {"level", "message", "timestamp"} : key \notin logs[i]

C9_EveryFailureIsStavilyAgentError ==
    last.exc # NoError => IsStavilyAgentError(last.exc)

\* The kind a connect() failure wraps, or an RPC operation raises, for the
\* socket outcome of its last call.
kind_seen == IF last.op = "connect" THEN last.cause ELSE last.exc

made_call == last.op \in RpcOps \cup {"connect"} /\ last.ids_used >= 1

\* The kind of a non-JSON response (the bare root class).
ProtocolErrorKind == "StavilyAgentError"

\* C10 (as stated): timeout gives TimeoutError, a socket failure gives
\* ConnectionError, and an empty response and a non-JSON response give one
\* and the same kind, which is not ConnectionError.
C10_EmptyAndNonJsonSameKind ==
    made_call =>
        /\ last.response.t = "timeout" => kind_seen = "TimeoutError"
        /\ last.response.t = "socket_error" => kind_seen = "ConnectionError"
        /\ last.response.t \in {"empty", "non_json"} =>
              /\ kind_seen = ProtocolErrorKind
              /\ kind_seen # "ConnectionError"

\* C10 (amended): timeout gives TimeoutError, a socket failure gives
\* ConnectionError, an empty response gives ConnectionError as well, and
\* only a non-JSON response gives the protocol error (the bare root kind),
\* which is not ConnectionError.
C10_TransportOutcomeKinds ==
    made_call =>
        /\ last.response.t = "timeout" => kind_seen = "TimeoutError"
        /\ last.response.t = "socket_error" => kind_seen = "ConnectionError"
        /\ last.response.t = "empty" => kind_seen = "ConnectionError"
        /\ last.response.t = "non_json" =>
              /\ kind_seen = ProtocolErrorKind
              /\ kind_seen # "ConnectionError"

\* a call on a Connected client was answered with an empty response
C10_Witness ==
    /\ last.op \in RpcOps
    /\ last.was_connected
    /\ last.response.t = "empty"
    /\ last.exc = "ConnectionError"

\* C11: when the peer answers any of the four operations with an error
\* member (code and message, data optional), the caller observes RPCError
\* carrying exactly the peer's code, message and data (no data: absent).
C11_RpcErrorVerbatim ==
    (/\ last.op \in RpcOps
     /\ last.response.t = "error_object"
     /\ last.response.error.has_code
     /\ last.response.error.has_message) =>
        /\ last.exc = "RPCError"
        /\ last.code = last.response.error.code
        /\ last.message = last.response.error.message
        /\ last.data = last.response.error.data

\* report_trigger answered with error -32601 "method not found"
C11_Witness ==
    /\ last.op = "report_trigger"
    /\ last.exc = "RPCError"
    /\ last.code = -32601
    /\ last.message = "method not found"
    /\ last.data = "absent"

\* ------------------------------------------------- _call, statement by statement
\* The callers of one client instance.
Threads == {1, 2}

\* A caller outside any operation.
idle_thread ==
    [pc |-> "idle", method |-> "", loaded |-> 0, id |-> 0, exc |-> NoError,
     done |-> 0]

\* The operations pass params except get_agent_info.
has_params(method) == method # "get_agent_info"

\* The client after connect() succeeded at its first attempt, with the callers
\* of `who` about to use it.
connected_client(who) ==
    /\ request_id = 1
    /\ connected = TRUE
    /\ max_retries = DefaultMaxRetries
    /\ pc = "idle"
    /\ attempt = 0
    /\ last_error = NoError
    /\ sleeps = 0
    /\ entry = [id |-> 0, sock |-> 0, connected |-> FALSE]
    /\ request = envelope("ping", FALSE, 1)
    /\ issued_ids = <<1>>
    /\ sockets_opened = 1
    /\ sockets_closed = 1
    /\ last = [op |-> "connect", arg |-> NoArg, was_connected |-> FALSE,
               response |-> NoResponse, exc |-> NoError,
               code |-> 0, message |-> "", data |-> "absent", ret |-> NoResult,
               cause |-> "", attempts |-> 1, slept |-> 0, ids_used |-> 1,
               sockets |-> 1, is_connected |-> TRUE]
    /\ threads = [t \in who |-> idle_thread]
    /\ monitor_off
    /\ event = NoEvent
    /\ session = NoSession
    /\ sampling = NoSampling
    /\ validation = NoValidation

thread_locals ==
    <<connected, max_retries, pc, connect_locals, last, monitor_vars, event, session,
      sampling, validation>>

\* A caller enters one of the four operations; the connected check passes and
\* _call starts building the envelope.
thread_call(t, method) ==
    /\ threads[t].pc = "idle"
    /\ threads[t].done < MaxThreadCalls
    /\ connected
    /\ threads' = [threads EXCEPT ![t] =
                      [idle_thread EXCEPT !.pc = "load", !.method = method,
                                          !.done = threads[t].done]]
    /\ UNCHANGED <<thread_locals, no_call_vars>>

\* self._request_id += 1, first half: the attribute is read.
load_request_id(t) ==
    /\ threads[t].pc = "load"
    /\ threads' = [threads EXCEPT ![t].pc = "store", ![t].loaded = request_id]
    /\ UNCHANGED <<thread_locals, no_call_vars>>

\* self._request_id += 1, second half: the sum is written back.
store_request_id(t) ==
    /\ threads[t].pc = "store"
    /\ request_id' = get_next_request_id(threads[t].loaded)
    /\ threads' = [threads EXCEPT ![t].pc = "return"]
    /\ UNCHANGED <<thread_locals, request, issued_ids, sockets_opened, sockets_closed>>

\* return self._request_id: the attribute is read again and goes into the
\* envelope.
return_request_id(t) ==
    /\ threads[t].pc = "return"
    /\ request' = envelope(threads[t].method, has_params(threads[t].method), request_id)
    /\ issued_ids' = Append(issued_ids, request_id)
    /\ threads' = [threads EXCEPT ![t].pc = "socket", ![t].id = request_id,
                                  ![t].method = ""]
    /\ UNCHANGED <<thread_locals, request_id, sockets_opened, sockets_closed>>

\* socket.socket(...)
socket_open(t) ==
    /\ threads[t].pc = "socket"
    /\ sockets_opened' = sockets_opened + 1
    /\ threads' = [threads EXCEPT ![t].pc = "round_trip"]
    /\ UNCHANGED <<thread_locals, request_id, request, issued_ids, sockets_closed>>

\* connect, sendall, recv, decode, json.loads, the error check: any of them
\* may raise, or the result is returned; either way the finally clause is next.
socket_round_trip(t) ==
    /\ threads[t].pc = "round_trip"
    /\ \E resp \in Responses :
         threads' = [threads EXCEPT ![t].pc = "finally", ![t].exc = call_exc(resp)]
    /\ UNCHANGED <<thread_locals, no_call_vars>>

\* (variant: the socket closed only after a result was returned)
socket_close_on_success(t) ==
    /\ threads[t].pc = "finally"
    /\ sockets_closed' = IF threads[t].exc = NoError
                         THEN sockets_closed + 1 ELSE sockets_closed
    /\ threads' = [threads EXCEPT ![t].pc = "idle", ![t].done = @ + 1]
    /\ UNCHANGED <<thread_locals, request_id, request, issued_ids, sockets_opened>>

\* finally: sock.close(), then the exception or the result leaves _call.
socket_close(t) ==
    /\ threads[t].pc = "finally"
    /\ sockets_closed' = sockets_closed + 1
    /\ threads' = [threads EXCEPT ![t].pc = "idle", ![t].done = @ + 1]
    /\ UNCHANGED <<thread_locals, request_id, request, issued_ids, sockets_opened>>

NextCall ==
    \/ \E t \in DOMAIN threads, method \in RpcOps : thread_call(t, method)
    \/ \E t \in DOMAIN threads : load_request_id(t)
    \/ \E t \in DOMAIN threads : store_request_id(t)
    \/ \E t \in DOMAIN threads : return_request_id(t)
    \/ \E t \in DOMAIN threads : socket_open(t)
    \/ \E t \in DOMAIN threads : socket_round_trip(t)
    \/ \E t \in DOMAIN threads : socket_close(t)

\* One caller.
SpecCall == connected_client({1}) /\ [][NextCall]_vars

\* Two callers on the same client instance.
SpecThreads == connected_client(Threads) /\ [][NextCall]_vars

\* ------------------------------------------------------------ the monitor
\* A program about to build its monitor around a client not yet constructed.
InitMonitor ==
    /\ request_id = 0
    /\ connected = FALSE
    /\ max_retries = DefaultMaxRetries
    /\ pc = "idle"
    /\ attempt = 0
    /\ last_error = NoError
    /\ sleeps = 0
    /\ entry = [id |-> 0, sock |-> 0, connected |-> FALSE]
    /\ request = envelope("", FALSE, 0)
    /\ issued_ids = <<>>
    /\ sockets_opened = 0
    /\ sockets_closed = 0
    /\ last = [op |-> "__init__", arg |-> NoArg, was_connected |-> FALSE,
               response |-> NoResponse, exc |-> NoError,
               code |-> 0, message |-> "", data |-> "absent", ret |-> NoResult,
               cause |-> "", attempts |-> 0, slept |-> 0, ids_used |-> 0,
               sockets |-> 0, is_connected |-> FALSE]
    /\ threads = NoThreads
    /\ event = NoEvent
    /\ session = NoSession
    /\ sampling = NoSampling
    /\ validation = NoValidation
    /\ config \in Configs
    /\ caller \in Callers
    /\ mpc = "new"
    /\ monitor_interval = 0
    /\ cpu_trigger = 0
    /\ mem_trigger = 0
    /\ cycle_count = 0
    /\ data = NoData
    /\ triggered = FALSE
    /\ error = NoError
    /\ obs = NoObs

monitor_fields == <<monitor_interval, cpu_trigger, mem_trigger>>
loop_locals == <<cycle_count, data, triggered>>

\* (variant: the bounds 0 and 100 themselves refused)
validate_monitor_args_exclusive(cpu, mem) ==
    IF cpu <= 0 \/ cpu >= 100
    THEN "CPU trigger percentage must be between 0 and 100"
    ELSE IF mem <= 0 \/ mem >= 100
    THEN "Memory trigger percentage must be between 0 and 100"
    ELSE NoError

\* validate_monitor_args: the message of the ValidationError it raises, or
\* NoError when it returns
validate_monitor_args(cpu, mem) ==
    IF cpu < 0 \/ cpu > 100
    THEN "CPU trigger percentage must be between 0 and 100"
    ELSE IF mem < 0 \/ mem > 100
    THEN "Memory trigger percentage must be between 0 and 100"
    ELSE NoError

\* validate_monitor_interval, likewise
validate_monitor_interval(interval) ==
    IF interval < 0 THEN "Monitor interval must be non-negative" ELSE NoError

\* validate_config: the three values are read with their defaults, then the
\* two validators run in turn; the first ValidationError leaves the function.
validate_config_message(cfg) ==
    LET cpu == config_get(cfg, "cpu_trigger_percentage", 0)
        mem == config_get(cfg, "mem_trigger_percentage", 0)
        interval == config_get(cfg, "monitor_interval", 30)
    IN IF validate_monitor_args(cpu, mem) # NoError
       THEN validate_monitor_args(cpu, mem)
       ELSE validate_monitor_interval(interval)

\* validate_config: passes, or raises ValidationError
validate_config(cfg) == validate_config_message(cfg) = NoError

\* SystemMonitor.__init__ up to the call of connect(): the fields are read
\* from the mapping with their defaults, a client is built and connect()
\* entered.
monitor_init ==
    /\ monitor_interval' = config_get(config, "monitor_interval", 30)
    /\ cpu_trigger' = config_get(config, "cpu_trigger_percentage", 0)
    /\ mem_trigger' = config_get(config, "mem_trigger_percentage", 0)
    /\ connect
    /\ mpc' = "connecting"
    /\ UNCHANGED <<config, caller, loop_locals, error, obs, aside>>

\* MachineDataExtractorPlugin.__init__: the monitor is built only for a
\* positive interval.
plugin_init ==
    /\ mpc = "new"
    /\ caller.via = "plugin"
    /\ IF config_get(config, "monitor_interval", 0) > 0
       THEN monitor_init
       ELSE /\ mpc' = "no_monitor"
            /\ UNCHANGED <<client_vars, aside, config, caller, monitor_fields,
                           loop_locals, error, obs>>

\* SystemMonitor(config) built by the program itself.
direct_init ==
    /\ mpc = "new"
    /\ caller.via = "monitor"
    /\ monitor_init

\* `raise f"..."` in both except clauses of the constructor: raising a str
\* is itself a TypeError, which leaves the constructor.
init_raises(exc) == "TypeError"

\* connect() running inside the constructor, one attempt at a time; when it
\* returns the monitor exists, when it raises the except clause runs.
monitor_connect ==
    /\ mpc = "connecting"
    /\ connect_attempt
    /\ IF pc' = "connect"
       THEN UNCHANGED <<mpc, error>>
       ELSE IF last'.exc = NoError
       THEN /\ mpc' = "constructed"
            /\ UNCHANGED error
       ELSE /\ mpc' = "init_failed"
            /\ error' = init_raises(last'.exc)
    /\ UNCHANGED <<config, caller, monitor_fields, loop_locals, obs, aside>>

\* MachineDataExtractorPlugin.start_monitoring without a monitor: a warning.
plugin_start_unconfigured ==
    /\ mpc = "no_monitor"
    /\ mpc' = "not_configured"
    /\ UNCHANGED <<client_vars, aside, config, caller, monitor_fields,
                   loop_locals, error, obs>>

\* if self.agent_client and self.agent_client.is_connected(): <operation>
when_connected(operation) ==
    IF connected THEN operation ELSE UNCHANGED client_vars

\* An exception that `except StavilyAgentError` does not catch.
escapes(exc) == exc # NoError /\ ~IsStavilyAgentError(exc)

\* The exception the agent call just made lets out of its try block.
escaped == IF connected /\ escapes(last'.exc) THEN last'.exc ELSE NoError

\* The log entry the monitor uploads: level, message, timestamp.
monitor_log == <<RequiredLogKeys>>

\* start_monitoring before the loop: the start log, outside the outer try.
start_monitoring ==
    /\ mpc = "constructed"
    /\ when_connected(upload_logs(monitor_log))
    /\ IF escaped # NoError
       THEN /\ mpc' = "failed"
            /\ error' = escaped
            /\ obs' = [obs EXCEPT !.raised_in = "start_log"]
       ELSE /\ mpc' = "pull"
            /\ UNCHANGED <<error, obs>>
    /\ UNCHANGED <<config, caller, monitor_fields, loop_locals, aside>>


\* An exception reaches the loop's `except Exception`.
loop_raises(exc, where, seen) ==
    /\ mpc' = "error_log"
    /\ error' = exc
    /\ obs' = [seen EXCEPT !.raised_in = where, !.original = exc]

\* cycle_count += 1; data = data_extractor().  The plugin's sampler catches
\* what its extractors raise; a sampler passed by the program may raise.
pull_sample ==
    /\ mpc = "pull"
    /\ cycle_count < MaxCycles
    /\ cycle_count' = cycle_count + 1
    /\ triggered' = FALSE
    /\ LET seen == [next_cycle(obs) EXCEPT !.pulls = @ + 1, !.order = <<"pull">>]
       IN \/ /\ data' \in Samples(caller.via)
             /\ obs' = seen
             /\ mpc' = "upload"
             /\ UNCHANGED error
          \/ /\ caller.via = "monitor"
             /\ loop_raises("SamplerError", "sampler", seen)
             /\ UNCHANGED data
    /\ UNCHANGED <<client_vars, aside, config, caller, monitor_fields>>

\* the per-cycle upload_logs
cycle_upload ==
    /\ mpc = "upload"
    /\ when_connected(upload_logs(monitor_log))
    /\ LET seen == [obs EXCEPT !.order = IF connected THEN Append(@, "upload") ELSE @,
                               !.uploads = IF connected THEN @ + 1 ELSE @]
       IN IF escaped # NoError
          THEN loop_raises(escaped, "upload_logs", seen)
          ELSE /\ mpc' = "check_cpu"
               /\ obs' = seen
               /\ UNCHANGED error
    /\ UNCHANGED <<config, caller, monitor_fields, loop_locals, aside>>

\* (variant: a threshold of 0 is a threshold like any other)
check_enabled_at_zero(threshold) == threshold >= 0

\* if self.cpu_trigger > 0 / if self.mem_trigger > 0
check_enabled(threshold) == threshold > 0

\* 'cpu' in data and 'cpu_percent' in data['cpu'], and its memory counterpart
available(m) == m.kind \notin {"no_section", "no_field"}

\* (variant: the isinstance test left out, as in the memory block)
cpu_verdict_unguarded(m, threshold) ==
    IF m.kind = "null" THEN "quiet"
    ELSE IF m.kind # "number" THEN "raises"
    ELSE IF m.value > threshold THEN "fires" ELSE "quiet"

\* cpu_percent is not None and isinstance(cpu_percent, (int, float))
\* and cpu_percent > self.cpu_trigger
cpu_verdict(m, threshold) ==
    IF m.kind = "null" THEN "quiet"
    ELSE IF m.kind # "number" THEN "quiet"
    ELSE IF m.value > threshold THEN "fires" ELSE "quiet"

\* mem_percent is not None and mem_percent > self.mem_trigger: comparing a
\* text with a number raises TypeError.
mem_verdict(m, threshold) ==
    IF m.kind = "null" THEN "quiet"
    ELSE IF m.kind # "number" THEN "raises"
    ELSE IF m.value > threshold THEN "fires" ELSE "quiet"

\* The verdict of the CPU block on the current sample.
cpu_block ==
    IF check_enabled(cpu_trigger) /\ available(data.cpu)
    THEN cpu_verdict(data.cpu, cpu_trigger) ELSE "quiet"

\* The verdict of the memory block on the current sample.
mem_block ==
    IF check_enabled(mem_trigger) /\ available(data.memory)
    THEN mem_verdict(data.memory, mem_trigger) ELSE "quiet"

\* The observer after a report_trigger call was made for a fired metric.
report_seen(seen, name) ==
    IF connected
    THEN [seen EXCEPT !.order = Append(@, name), !.reports = Append(@, name),
                      !.report_failures =
                          IF last'.exc # NoError THEN @ + 1 ELSE @]
    ELSE seen

\* should_trigger, the CPU block.
check_cpu ==
    /\ mpc = "check_cpu"
    /\ LET seen == [obs EXCEPT !.order = Append(@, "check_cpu"),
                               !.cpu_checked = TRUE,
                               !.cpu_fired = cpu_block = "fires"]
       IN IF cpu_block = "raises"
          THEN /\ loop_raises("TypeError", "check_cpu", seen)
               /\ UNCHANGED <<client_vars, triggered>>
          ELSE IF cpu_block = "fires"
          THEN /\ when_connected(report_trigger("cpu_high"))
               /\ IF escaped # NoError
                  THEN /\ loop_raises(escaped, "report_trigger",
                                       report_seen(seen, "cpu_high"))
                       /\ UNCHANGED triggered
                  ELSE /\ triggered' = TRUE
                       /\ mpc' = "check_mem"
                       /\ obs' = report_seen(seen, "cpu_high")
                       /\ UNCHANGED error
          ELSE /\ UNCHANGED <<client_vars, triggered, error>>
               /\ mpc' = "check_mem"
               /\ obs' = seen
    /\ UNCHANGED <<config, caller, monitor_fields, cycle_count, data, aside>>

\* (variant: the sleep placed inside `if trigger_result:`)
after_evaluation_sleep_if_fired(fired) == IF fired THEN "emit" ELSE "pull"

\* if trigger_result: build and deliver the event; then, in either case,
\* time.sleep(self.monitor_interval)
after_evaluation(fired) == IF fired THEN "emit" ELSE "sleep"

\* should_trigger, the memory block, and its return to the loop: a cycle
\* whose `triggered` is set goes on to build the event.
check_mem ==
    /\ mpc = "check_mem"
    /\ LET seen == [obs EXCEPT !.order = Append(@, "check_mem"),
                               !.mem_checked = TRUE,
                               !.mem_fired = mem_block = "fires"]
       IN IF mem_block = "raises"
          THEN /\ loop_raises("TypeError", "check_mem", seen)
               /\ UNCHANGED <<client_vars, triggered>>
          ELSE IF mem_block = "fires"
          THEN /\ when_connected(report_trigger("memory_high"))
               /\ IF escaped # NoError
                  THEN /\ loop_raises(escaped, "report_trigger",
                                       report_seen(seen, "memory_high"))
                       /\ UNCHANGED triggered
                  ELSE /\ triggered' = TRUE
                       /\ mpc' = after_evaluation(triggered')
                       /\ obs' = [report_seen(seen, "memory_high")
                                     EXCEPT !.evaluated = TRUE]
                       /\ UNCHANGED error
          ELSE /\ UNCHANGED <<client_vars, triggered, error>>
               /\ mpc' = after_evaluation(triggered)
               /\ obs' = [seen EXCEPT !.evaluated = TRUE]
    /\ UNCHANGED <<config, caller, monitor_fields, cycle_count, data, aside>>

\* "-" * 10 + " TRIGGER EVENT " + "-" * 10
encloser == "---------- TRIGGER EVENT ----------"

\* print(encloser); print(json.dumps(trigger_event, indent=2)); print(encloser)
printed_event ==
    <<encloser, "json.dumps(trigger_event, indent=2)", encloser>>

\* output_trigger_event, then the callback if one was passed (it may raise),
\* else the event printed between two delimiter lines.
emit_event ==
    /\ mpc = "emit"
    /\ LET seen == [obs EXCEPT !.order = Append(@, "emit"), !.emitted = @ + 1]
       IN IF caller.callback
          THEN LET called == [seen EXCEPT !.callbacks = @ + 1]
               IN \/ /\ obs' = called
                     /\ mpc' = "sleep"
                     /\ UNCHANGED error
                  \/ loop_raises("CallbackError", "callback", called)
          ELSE /\ obs' = [seen EXCEPT !.lines = @ \o printed_event]
               /\ mpc' = "sleep"
               /\ UNCHANGED error
    /\ UNCHANGED <<client_vars, aside, config, caller, monitor_fields, loop_locals>>

\* The observer once time.sleep(self.monitor_interval) has been called.
sleep_seen ==
    [obs EXCEPT !.order = Append(@, "sleep"),
                !.sleep_calls = Append(@, monitor_interval)]

\* time.sleep(self.monitor_interval) returning: a negative interval raises
\* ValueError instead; otherwise the next iteration of `while True` begins.
cycle_sleep ==
    /\ mpc = "sleep"
    /\ IF monitor_interval < 0
       THEN loop_raises("ValueError", "sleep", sleep_seen)
       ELSE /\ mpc' = "pull"
            /\ obs' = [sleep_seen EXCEPT !.slept = @ + 1]
            /\ UNCHANGED error
    /\ UNCHANGED <<client_vars, aside, config, caller, monitor_fields, loop_locals>>

\* KeyboardInterrupt delivered during the sleep.
cancel ==
    /\ mpc = "sleep"
    /\ monitor_interval >= 0
    /\ mpc' = "stop_log"
    /\ obs' = [sleep_seen EXCEPT !.cancelled = Append(@, "sleep")]
    /\ UNCHANGED <<client_vars, aside, config, caller, monitor_fields,
                   loop_locals, error>>

\* The agent call the loop is about to make, if it is about to make one:
\* the start log, the cycle's upload, a report of a fired metric, the stop
\* log or the error log.
pending_call ==
    IF ~connected THEN "none"
    ELSE IF mpc = "constructed" THEN "start_log"
    ELSE IF mpc = "upload" THEN "upload_logs"
    ELSE IF mpc = "check_cpu" /\ cpu_block = "fires" THEN "cpu_high"
    ELSE IF mpc = "check_mem" /\ mem_block = "fires" THEN "memory_high"
    ELSE IF mpc = "stop_log" THEN "stop_log"
    ELSE IF mpc = "error_log" THEN "error_log"
    ELSE "none"

\* The observer once the pending agent call has been entered.
call_seen ==
    IF mpc = "upload"
    THEN [obs EXCEPT !.order = Append(@, "upload"), !.uploads = @ + 1]
    ELSE IF mpc = "check_cpu"
    THEN [obs EXCEPT !.order = @ \o <<"check_cpu", "cpu_high">>,
                     !.cpu_checked = TRUE, !.cpu_fired = TRUE,
                     !.reports = Append(@, "cpu_high")]
    ELSE IF mpc = "check_mem"
    THEN [obs EXCEPT !.order = @ \o <<"check_mem", "memory_high">>,
                     !.mem_checked = TRUE, !.mem_fired = TRUE,
                     !.reports = Append(@, "memory_high")]
    ELSE IF mpc = "stop_log" THEN [obs EXCEPT !.stop_logs = @ + 1]
    ELSE IF mpc = "error_log" THEN [obs EXCEPT !.error_logs = @ + 1]
    ELSE obs

\* except KeyboardInterrupt covers the body of the outer try only: not the
\* start log before it, nor the uploads made by the two handlers.
interrupt_handled(at) == at \notin {"start_log", "stop_log", "error_log"}

\* KeyboardInterrupt delivered inside a blocking agent call of
\* start_monitoring.
cancel_in_call ==
    /\ pending_call # "none"
    /\ IF pending_call \in {"cpu_high", "memory_high"}
       THEN interrupted("report_trigger", pending_call)
       ELSE interrupted("upload_logs", monitor_log)
    /\ obs' = [call_seen EXCEPT !.cancelled = Append(@, pending_call)]
    /\ IF interrupt_handled(pending_call)
       THEN /\ mpc' = "stop_log"
            /\ UNCHANGED error
       ELSE /\ mpc' = "failed"
            /\ error' = "KeyboardInterrupt"
    /\ UNCHANGED <<config, caller, monitor_fields, loop_locals, aside>>

\* except KeyboardInterrupt: the stop log, then start_monitoring returns; an
\* exception the inner except does not catch leaves start_monitoring.
stop_log ==
    /\ mpc = "stop_log"
    /\ when_connected(upload_logs(monitor_log))
    /\ LET seen == [obs EXCEPT !.stop_logs = IF connected THEN @ + 1 ELSE @]
       IN IF escaped # NoError
          THEN /\ mpc' = "failed"
               /\ error' = escaped
               /\ obs' = [seen EXCEPT !.raised_in = "stop_log"]
          ELSE /\ mpc' = "stopped"
               /\ obs' = seen
               /\ UNCHANGED error
    /\ UNCHANGED <<config, caller, monitor_fields, loop_locals, aside>>

\* except Exception: the ERROR log, then `raise`; an exception the inner
\* except does not catch replaces the one being handled.
error_log ==
    /\ mpc = "error_log"
    /\ when_connected(upload_logs(monitor_log))
    /\ error' = IF escaped # NoError THEN escaped ELSE error
    /\ obs' = [obs EXCEPT !.error_logs = IF connected THEN @ + 1 ELSE @]
    /\ mpc' = "failed"
    /\ UNCHANGED <<config, caller, monitor_fields, loop_locals, aside>>

NextMonitor ==
    \/ plugin_init
    \/ direct_init
    \/ monitor_connect
    \/ plugin_start_unconfigured
    \/ start_monitoring
    \/ pull_sample
    \/ cycle_upload
    \/ check_cpu
    \/ check_mem
    \/ emit_event
    \/ cycle_sleep
    \/ cancel
    \/ cancel_in_call
    \/ stop_log
    \/ error_log

SpecMonitor == InitMonitor /\ [][NextMonitor]_vars

\* Sockets the client holds open.
open_sockets == sockets_opened - sockets_closed

\* C12: every call opens exactly one socket and closes it on every exit path:
\* the client never holds more than one open socket, holds one only between
\* the socket's creation and the finally clause, and once a call has returned
\* or failed none is open and one socket was opened per call made.
C12_OneSocketPerCall ==
    /\ open_sockets \in {0, 1}
    /\ \A t \in DOMAIN threads :
         /\ open_sockets = 1 <=> threads[t].pc \in {"round_trip", "finally"}
         /\ threads[t].pc = "idle" =>
              /\ open_sockets = 0
              /\ sockets_opened = Len(issued_ids)

\* a call that timed out has returned control and its socket is closed
C12_Witness ==
    /\ 1 \in DOMAIN threads
    /\ threads[1].pc = "idle"
    /\ threads[1].done >= 1
    /\ threads[1].exc = "TimeoutError"
    /\ sockets_opened = 2
    /\ sockets_closed = 2

\* C13: when two threads call concurrently on one client, under every
\* interleaving the request ids are pairwise distinct and, once both threads
\* are outside any call, the counter equals the number of calls issued.
C13_ThreadSafeRequestIds ==
    /\ \A i, j \in DOMAIN issued_ids : i # j => issued_ids[i] # issued_ids[j]
    /\ (\A t \in DOMAIN threads : threads[t].pc = "idle") =>
           request_id = Len(issued_ids)

\* The names of the triggers reported in the current cycle.
reported == {obs.reports[i] : i \in DOMAIN obs.reports}

\* The metric is a number above the threshold.
above(m, threshold) == m.kind = "number" /\ m.value > threshold

\* C14: for a CPU threshold T > 0 the CPU check fires exactly when the
\* sample's cpu_percent is a number strictly greater than T; equality, a
\* missing section or field, null and a text neither fire nor raise; with
\* thresholds 80/85 and the sample cpu 85, memory 50 the CPU check fires and
\* the memory check does not.
C14_CpuFiresIffAbove ==
    (obs.cpu_checked /\ cpu_trigger > 0) =>
        /\ obs.cpu_fired <=> above(data.cpu, cpu_trigger)
        /\ ~obs.cpu_fired => obs.raised_in # "check_cpu"
        /\ obs.cpu_fired => "cpu_high" \in reported
        /\ (/\ cpu_trigger = 80
            /\ mem_trigger = 85
            /\ data = [cpu |-> number(85), memory |-> number(50)]
            /\ obs.mem_checked) => (obs.cpu_fired /\ ~obs.mem_fired)

\* thresholds 80/85, sample cpu 85 and memory 50, evaluated to its end
C14_Witness ==
    /\ cpu_trigger = 80
    /\ mem_trigger = 85
    /\ data = [cpu |-> number(85), memory |-> number(50)]
    /\ mpc = "emit"
    /\ obs.cpu_fired
    /\ obs.mem_checked
    /\ ~obs.mem_fired
    /\ reported = {"cpu_high"}

\* C15: for a memory threshold T > 0 the memory check fires exactly when the
\* sample's memory percent is a number strictly greater than T, and a memory
\* percent that is present but not a number does not fire and raises nothing.
C15_MemMirrorsCpu ==
    (obs.mem_checked /\ mem_trigger > 0) =>
        /\ obs.mem_fired <=> above(data.memory, mem_trigger)
        /\ ~obs.mem_fired => obs.raised_in # "check_mem"

\* C16: a threshold of 0 disables its check: the check never fires and its
\* trigger is never reported, whatever the sample; with both thresholds 0 no
\* cycle produces a trigger or an event.
C16_ZeroDisables ==
    mpc \notin {"off", "new"} =>
        /\ cpu_trigger = 0 =>
             /\ ~obs.cpu_fired
             /\ "cpu_high" \notin reported
             /\ ~(last.op = "report_trigger" /\ last.arg = "cpu_high")
        /\ mem_trigger = 0 =>
             /\ ~obs.mem_fired
             /\ "memory_high" \notin reported
             /\ ~(last.op = "report_trigger" /\ last.arg = "memory_high")
        /\ (cpu_trigger = 0 /\ mem_trigger = 0) =>
             /\ ~triggered
             /\ obs.emitted = 0

\* both thresholds 0 and a sample of cpu 99, memory 99: the cycle reaches its
\* sleep without a trigger
C16_Witness ==
    /\ cpu_trigger = 0
    /\ mem_trigger = 0
    /\ data = [cpu |-> number(99), memory |-> number(99)]
    /\ mpc = "sleep"
    /\ obs.cpu_checked
    /\ obs.mem_checked
    /\ ~triggered
    /\ obs.emitted = 0

\* The current cycle has a sample and can emit nothing any more.
cycle_over ==
    /\ cycle_count >= 1
    /\ mpc \in {"sleep", "error_log"}
    /\ obs.raised_in # "sampler"

\* C17: in every cycle whose sample has a metric above its non-zero
\* threshold, the trigger of that metric is reported and one event is
\* emitted, whatever happened in earlier cycles.
C17_FiresInEveryCycleAbove ==
    cycle_over =>
        /\ (cpu_trigger > 0 /\ above(data.cpu, cpu_trigger)) =>
              ("cpu_high" \in reported /\ obs.emitted = 1)
        /\ (mem_trigger > 0 /\ above(data.memory, mem_trigger)) =>
              ("memory_high" \in reported /\ obs.emitted = 1)

\* C18: when connect() fails in the constructor, no sample is ever pulled, no
\* cycle runs, and the caller sees a ConnectionError.
C18_ConnectFailureFailsFast ==
    mpc = "init_failed" =>
        /\ obs.pulls = 0
        /\ cycle_count = 0
        /\ error = "ConnectionError"

\* The positions of start_monitoring inside its loop.
Running == {"pull", "upload", "check_cpu", "check_mem", "emit", "sleep"}

\* C19: with a configuration that validate_config rejects, no sample is ever
\* pulled and the loop is never entered.
C19_InvalidConfigNeverRuns ==
    (mpc # "off" /\ ~validate_config(config)) =>
        /\ obs.pulls = 0
        /\ mpc \notin Running

\* C20: no failure of an upload_logs or report_trigger call made by the loop
\* takes the loop out of Running: the loop is never left through an
\* exception raised by one of these calls.
C20_AgentFailureNeverAborts ==
    mpc \in {"error_log", "failed"} =>
        obs.raised_in \notin {"upload_logs", "report_trigger"}

\* The event of the current cycle reached the callback or was printed.
delivered == obs.callbacks = 1 \/ obs.lines = printed_event

\* C21: when a metric fires and the report_trigger call for it fails, the
\* event of that cycle is still built and delivered to the callback, or
\* printed when there is none.
C21_EventDespiteReportFailure ==
    (cycle_over /\ obs.report_failures > 0) =>
        (obs.emitted = 1 /\ delivered)

\* start_monitoring has returned or raised.
monitoring_ended == mpc \in {"stopped", "failed"}

\* C22: a cancellation delivered during the sleep of cycle k ends the loop:
\* start_monitoring returns without raising whatever becomes of the stop log,
\* of which exactly one is uploaded if connected; the sampler was pulled
\* exactly k times and sleep entered exactly k times, each time with the
\* configured interval.
C22_CancelAtSleepStops ==
    (monitoring_ended /\ obs.cancelled = <<"sleep">>) =>
        /\ mpc = "stopped"
        /\ error = NoError
        /\ obs.pulls = cycle_count
        /\ Len(obs.sleep_calls) = cycle_count
        /\ \A i \in DOMAIN obs.sleep_calls : obs.sleep_calls[i] = monitor_interval
        /\ obs.stop_logs = (IF connected THEN 1 ELSE 0)

\* C23: a cancellation delivered inside a blocking agent call of
\* start_monitoring (the start log, a cycle's upload_logs, a report_trigger,
\* the stop log) stops the loop and start_monitoring returns without raising.
C23_CancelInAgentCallStops ==
    (/\ monitoring_ended
     /\ obs.cancelled # <<>>
     /\ \A i \in DOMAIN obs.cancelled : obs.cancelled[i] \notin {"sleep", "error_log"}) =>
        /\ mpc = "stopped"
        /\ error = NoError

\* The steps of a cycle that are the sampler, the evaluation and the callback.
own_steps == {"sampler", "check_cpu", "check_mem", "callback"}

\* C24: when the sampler, the evaluation or the callback raises in a cycle,
\* the loop uploads one ERROR log if connected and re-raises the original
\* exception whatever the outcome of that upload; no further cycle runs.
C24_OriginalReraised ==
    (mpc = "failed" /\ obs.raised_in \in own_steps /\ obs.cancelled = <<>>) =>
        /\ error = obs.original
        /\ obs.error_logs = (IF connected THEN 1 ELSE 0)
        /\ obs.pulls = cycle_count

\* The place of a step in the body of the loop.
step_rank(tag) ==
    CASE tag = "pull" -> 1
      [] tag = "upload" -> 2
      [] tag = "check_cpu" -> 3
      [] tag = "cpu_high" -> 4
      [] tag = "check_mem" -> 5
      [] tag = "memory_high" -> 6
      [] tag = "emit" -> 7
      [] tag = "sleep" -> 8

\* The steps the current cycle has taken.
steps_taken == {obs.order[i] : i \in DOMAIN obs.order}

\* C25: cycles are serial and follow one order: the pull, then one
\* upload_logs if connected, then the evaluation with its report_trigger
\* calls, then the emission, then one sleep of monitor_interval; the pull of
\* cycle N+1 happens only once the sleep of cycle N is over, and connect's
\* retry sleep never runs inside the loop.
C25_SerialCyclesFixedOrder ==
    mpc \notin {"off", "new"} =>
        /\ \A i, j \in DOMAIN obs.order :
              i < j => step_rank(obs.order[i]) < step_rank(obs.order[j])
        /\ obs.order # <<>> => obs.order[1] = "pull"
        /\ obs.pulls = cycle_count
        /\ mpc \in {"check_cpu", "check_mem", "emit", "sleep"} =>
              /\ "upload" \in steps_taken <=> connected
              /\ obs.uploads = (IF connected THEN 1 ELSE 0)
        /\ mpc \in {"emit", "sleep"} =>
              {"pull", "check_cpu", "check_mem"} \subseteq steps_taken
        /\ "emit" \in steps_taken <=> obs.emitted = 1
        /\ mpc \in {"upload", "check_cpu", "check_mem", "emit", "sleep"} =>
              /\ Len(obs.sleep_calls) = obs.pulls - 1
              /\ "sleep" \notin steps_taken
        /\ mpc = "pull" => Len(obs.sleep_calls) = obs.pulls
        /\ mpc = "pull" /\ obs.pulls > 0 =>
              /\ obs.order[Len(obs.order)] = "sleep"
              /\ obs.slept = 1
        /\ \A i \in DOMAIN obs.sleep_calls : obs.sleep_calls[i] = monitor_interval
        /\ mpc \in Running => sleeps = 0

\* the second cycle, both metrics fired and reported and the event emitted,
\* about to sleep after the first cycle's sleep
C25_Witness ==
    /\ obs.pulls = 2
    /\ mpc = "sleep"
    /\ obs.order = <<"pull", "upload", "check_cpu", "cpu_high", "check_mem",
                     "memory_high", "emit">>
    /\ obs.sleep_calls = <<monitor_interval>>

\* C26: with the monitor interval configured as 0, starting monitoring runs
\* no repeating loop: the sampler is pulled at most once and no second
\* cycle starts.
C26_ZeroIntervalSingleShot ==
    (/\ mpc \notin {"off", "new"}
     /\ "monitor_interval" \in config.keys
     /\ config.monitor_interval = 0) =>
        /\ obs.pulls <= 1
        /\ cycle_count <= 1

\* A metric fired in the current cycle.
cycle_fired == obs.cpu_fired \/ obs.mem_fired

\* C27: in a cycle that fires exactly one output happens: the callback, if
\* one was passed, is invoked with the event and nothing is printed;
\* otherwise the event is printed between two identical delimiter lines.  In
\* a cycle that does not fire there is neither a callback call nor a print.
C27_ExactlyOneOutput ==
    cycle_over =>
        /\ cycle_fired =>
              IF caller.callback
              THEN obs.callbacks = 1 /\ obs.lines = <<>>
              ELSE /\ obs.callbacks = 0
                   /\ Len(obs.lines) = 3
                   /\ obs.lines[1] = obs.lines[3]
                   /\ obs.lines[1] = encloser
                   /\ obs.lines[2] # encloser
        /\ ~cycle_fired => (obs.callbacks = 0 /\ obs.lines = <<>>)

\* ------------------------------------------------------ trigger events
\* Values of the JSON data model as Python holds them: None, bool, int,
\* float (held in tenths), str (its characters), list and dict (its items in
\* insertion order, keys being strings).
json(t, v) == [t |-> t, v |-> v]

\* d[key], or an absent marker
dict_get(o, key) ==
    IF o.t = "dict" /\ \E i \in DOMAIN o.v : o.v[i][1] = key
    THEN o.v[CHOOSE i \in DOMAIN o.v : o.v[i][1] = key][2]
    ELSE [t |-> "absent", v |-> 0]

\* list(d.keys())
dict_keys(o) == [i \in DOMAIN o.v |-> o.v[i][1]]

\* d[key] = value: a key already present keeps its place
dict_put(items, key, value) ==
    IF \E i \in DOMAIN items : items[i][1] = key
    THEN [i \in DOMAIN items |-> IF items[i][1] = key THEN <<key, value>> ELSE items[i]]
    ELSE Append(items, <<key, value>>)

key_data == <<"d", "a", "t", "a">>
key_date_triggered ==
    <<"d", "a", "t", "e", "_", "t", "r", "i", "g", "g", "e", "r", "e", "d">>
key_cpu == <<"c", "p", "u">>

\* datetime.datetime.now().isoformat(), as the tests fix it
Timestamps ==
    {<<"2", "0", "2", "5", "-", "0", "1", "-", "0", "1", "T",
       "1", "2", ":", "0", "5", ":", "0", "0">>,
     <<"2", "0", "2", "5", "-", "0", "1", "-", "0", "1", "T",
       "1", "2", ":", "0", "0", ":", "0", "0">>}

\* The samples of test_output_trigger_event and test_format_trigger_event.
TestSamples ==
    {json("dict", << <<<<"t", "i", "m", "e", "s", "t", "a", "m", "p">>,
                    json("str", <<"2", "0", "2", "5", "-", "0", "1", "-", "0", "1",
                               "T", "1", "2", ":", "0", "0", ":", "0", "0">>)>>,
                  <<key_cpu,
                    json("dict", << <<<<"c", "p", "u", "_", "p", "e", "r", "c", "e", "n", "t">>,
                                      json("float", 850)>> >>)>> >>),
     json("dict", << <<<<"t", "e", "s", "t">>, json("str", <<"d", "a", "t", "a">>)>> >>)}

\* Values that hold no other value: texts with a quote, a backslash, a
\* control character and a character outside ASCII among them.
Scalars ==
    {json("null", 0), json("bool", TRUE), json("bool", FALSE),
     json("int", 0), json("int", 85), json("int", -7), json("int", 120),
     json("float", 850), json("float", 5), json("float", -125),
     json("str", <<>>), json("str", <<"n", "/", "a">>),
     json("str", <<"\"", "a", "\\">>), json("str", <<"e-acute", "\n", " ">>)}

\* Values nested at most n deep.
RECURSIVE Values(_)
Values(n) ==
    IF n = 0 THEN Scalars
    ELSE LET V == Values(n - 1)
         IN Scalars \cup {json("list", <<>>), json("dict", <<>>)}
              \cup {json("list", <<v>>) : v \in V}
              \cup {json("list", <<v, v>>) : v \in V}
              \cup {json("dict", << <<key_cpu, v>> >>) : v \in V}
              \cup {json("dict", << <<<<"m", "e", "m", "o", "r", "y">>, json("int", 50)>>,
                                    <<key_cpu, v>> >>) : v \in V}

\* The samples an event is built from: mappings.
EventSamples == {o \in Values(MaxDepth) : o.t = "dict"} \cup TestSamples

Digits == <<"0", "1", "2", "3", "4", "5", "6", "7", "8", "9">>

\* the decimal digits of a natural number
RECURSIVE int_digits(_)
int_digits(n) ==
    IF n < 10 THEN <<Digits[n + 1]>>
    ELSE Append(int_digits(n \div 10), Digits[(n % 10) + 1])

\* int.__repr__
int_repr(n) == IF n < 0 THEN <<"-">> \o int_digits(-n) ELSE int_digits(n)

\* float.__repr__ of a value with one decimal
float_repr(tenths) ==
    LET m == IF tenths < 0 THEN -tenths ELSE tenths
    IN (IF tenths < 0 THEN <<"-">> ELSE <<>>)
         \o int_digits(m \div 10) \o <<".", Digits[(m % 10) + 1]>>

\* (variant: characters written as they are)
escape_char_verbatim(c) == <<c>>

\* json.encoder with ensure_ascii: quote, backslash and control characters
\* are escaped, characters outside ASCII become \uXXXX
escape_char(c) ==
    CASE c = "\"" -> <<"\\", "\"">>
      [] c = "\\" -> <<"\\", "\\">>
      [] c = "\n" -> <<"\\", "n">>
      [] c = "e-acute" -> <<"\\", "u", "0", "0", "e", "9">>
      [] OTHER -> <<c>>

RECURSIVE escape(_)
escape(chars) ==
    IF chars = <<>> THEN <<>> ELSE escape_char(Head(chars)) \o escape(Tail(chars))

\* a str or a key between double quotes
encode_string(chars) == <<"\"">> \o escape(chars) \o <<"\"">>

\* '\n' + ' ' * (indent * level), with indent=2
newline_indent(level) == <<"\n">> \o [i \in 1..(2 * level) |-> " "]

\* json.dumps(o, indent=2): the characters written for a value at a nesting
\* level
RECURSIVE dumps(_, _)
RECURSIVE dump_items(_, _)
RECURSIVE dump_members(_, _)
dumps(o, level) ==
    CASE o.t = "null" -> <<"n", "u", "l", "l">>
      [] o.t = "bool" -> IF o.v THEN <<"t", "r", "u", "e">>
                                ELSE <<"f", "a", "l", "s", "e">>
      [] o.t = "int" -> int_repr(o.v)
      [] o.t = "float" -> float_repr(o.v)
      [] o.t = "str" -> encode_string(o.v)
      [] o.t = "list" ->
            IF o.v = <<>> THEN <<"[", "]">>
            ELSE <<"[">> \o newline_indent(level + 1)
                   \o dump_items(o.v, level + 1)
                   \o newline_indent(level) \o <<"]">>
      [] o.t = "dict" ->
            IF o.v = <<>> THEN <<"{", "}">>
            ELSE <<"{">> \o newline_indent(level + 1)
                   \o dump_members(o.v, level + 1)
                   \o newline_indent(level) \o <<"}">>

dump_items(items, level) ==
    dumps(Head(items), level)
      \o (IF Tail(items) = <<>> THEN <<>>
          ELSE <<",">> \o newline_indent(level) \o dump_items(Tail(items), level))

dump_members(items, level) ==
    encode_string(Head(items)[1]) \o <<":", " ">> \o dumps(Head(items)[2], level)
      \o (IF Tail(items) = <<>> THEN <<>>
          ELSE <<",">> \o newline_indent(level) \o dump_members(Tail(items), level))

\* What the decoder gives: a value and the place after it, or an error.
parsed_to(value, pos) == [ok |-> TRUE, val |-> value, pos |-> pos]
parse_error(pos) == [ok |-> FALSE, val |-> json("null", 0), pos |-> pos]

\* the character at a place, or a mark past the end
char_at(text, i) == IF i \in DOMAIN text THEN text[i] ELSE "EOF"

\* the whitespace the decoder skips
RECURSIVE skip_ws(_, _)
skip_ws(text, i) ==
    IF char_at(text, i) \in {" ", "\n", "\t", "\r"} THEN skip_ws(text, i + 1) ELSE i

\* the text from place i on starts with the word
starts_with(text, i, word) ==
    \A k \in DOMAIN word : char_at(text, i + k - 1) = word[k]

\* the place after a run of digits
RECURSIVE skip_digits(_, _)
skip_digits(text, i) ==
    IF \E k \in DOMAIN Digits : Digits[k] = char_at(text, i)
    THEN skip_digits(text, i + 1) ELSE i

\* int() of a run of digits
RECURSIVE digits_value(_, _, _)
digits_value(text, i, j) ==
    IF j < i THEN 0
    ELSE 10 * digits_value(text, i, j - 1)
           + (CHOOSE k \in 0..9 : Digits[k + 1] = text[j])

\* NUMBER_RE: -?digits(.digits)?, an int without a fraction, else a float
parse_number(text, i) ==
    LET neg == char_at(text, i) = "-"
        first == IF neg THEN i + 1 ELSE i
        after == skip_digits(text, first)
        whole == digits_value(text, first, after - 1)
        frac_end == IF char_at(text, after) = "." THEN skip_digits(text, after + 1)
                    ELSE after
        sign == IF neg THEN -1 ELSE 1
    IN IF after = first THEN parse_error(i)
       ELSE IF frac_end = after \/ frac_end = after + 1
       THEN parsed_to(json("int", sign * whole), after)
       ELSE IF frac_end = after + 2
       THEN parsed_to(json("float", sign * (10 * whole
                                          + digits_value(text, after + 1, after + 1))),
                      frac_end)
       ELSE parse_error(after)

\* py_scanstring from the place after the opening quote: escapes are undone,
\* a raw control character is an error (strict)
RECURSIVE parse_string(_, _, _)
parse_string(text, i, acc) ==
    LET c == char_at(text, i)
        e == char_at(text, i + 1)
    IN IF c = "\"" THEN parsed_to(json("str", acc), i + 1)
       ELSE IF c \in {"EOF", "\n", "\t", "\r"} THEN parse_error(i)
       ELSE IF c # "\\" THEN parse_string(text, i + 1, Append(acc, c))
       ELSE IF e \in {"\"", "\\", "/"} THEN parse_string(text, i + 2, Append(acc, e))
       ELSE IF e = "n" THEN parse_string(text, i + 2, Append(acc, "\n"))
       ELSE IF e = "u" /\ starts_with(text, i + 2, <<"0", "0", "e", "9">>)
       THEN parse_string(text, i + 6, Append(acc, "e-acute"))
       ELSE parse_error(i)

\* scan_once, JSONArray and JSONObject of json.decoder
RECURSIVE scan_once(_, _)
RECURSIVE parse_elements(_, _, _)
RECURSIVE parse_members(_, _, _)
scan_once(text, i) ==
    LET c == char_at(text, i)
    IN IF c = "\"" THEN parse_string(text, i + 1, <<>>)
       ELSE IF c = "{"
       THEN IF char_at(text, skip_ws(text, i + 1)) = "}"
            THEN parsed_to(json("dict", <<>>), skip_ws(text, i + 1) + 1)
            ELSE parse_members(text, skip_ws(text, i + 1), <<>>)
       ELSE IF c = "["
       THEN IF char_at(text, skip_ws(text, i + 1)) = "]"
            THEN parsed_to(json("list", <<>>), skip_ws(text, i + 1) + 1)
            ELSE parse_elements(text, skip_ws(text, i + 1), <<>>)
       ELSE IF starts_with(text, i, <<"n", "u", "l", "l">>)
       THEN parsed_to(json("null", 0), i + 4)
       ELSE IF starts_with(text, i, <<"t", "r", "u", "e">>)
       THEN parsed_to(json("bool", TRUE), i + 4)
       ELSE IF starts_with(text, i, <<"f", "a", "l", "s", "e">>)
       THEN parsed_to(json("bool", FALSE), i + 5)
       ELSE parse_number(text, i)

parse_elements(text, i, acc) ==
    LET item == scan_once(text, i)
        sep == skip_ws(text, item.pos)
    IN IF ~item.ok THEN item
       ELSE IF char_at(text, sep) = ","
       THEN parse_elements(text, skip_ws(text, sep + 1), Append(acc, item.val))
       ELSE IF char_at(text, sep) = "]"
       THEN parsed_to(json("list", Append(acc, item.val)), sep + 1)
       ELSE parse_error(sep)

parse_members(text, i, acc) ==
    IF char_at(text, i) # "\"" THEN parse_error(i)
    ELSE LET key == parse_string(text, i + 1, <<>>)
             colon == skip_ws(text, key.pos)
             item == scan_once(text, skip_ws(text, colon + 1))
             sep == skip_ws(text, item.pos)
         IN IF ~key.ok THEN key
            ELSE IF char_at(text, colon) # ":" THEN parse_error(colon)
            ELSE IF ~item.ok THEN item
            ELSE IF char_at(text, sep) = ","
            THEN parse_members(text, skip_ws(text, sep + 1),
                               dict_put(acc, key.val.v, item.val))
            ELSE IF char_at(text, sep) = "}"
            THEN parsed_to(json("dict", dict_put(acc, key.val.v, item.val)), sep + 1)
            ELSE parse_error(sep)

\* json.loads: one value, whitespace around it, nothing after it
loads(text) ==
    LET value == scan_once(text, skip_ws(text, 1))
    IN IF ~value.ok THEN value
       ELSE IF skip_ws(text, value.pos) = Len(text) + 1 THEN value
       ELSE parse_error(value.pos)

\* SystemMonitor.output_trigger_event: {'data': data, 'date_triggered': now}
output_trigger_event(d, now) ==
    json("dict", << <<key_data, d>>, <<key_date_triggered, json("str", now)>> >>)

\* formatting.format_trigger_event: the same mapping, as indented JSON
format_trigger_event(d, now) == dumps(output_trigger_event(d, now), 0)

\* A sample about to become an event.
InitEvent ==
    /\ new_client
    /\ threads = NoThreads
    /\ monitor_off
    /\ session = NoSession
    /\ sampling = NoSampling
    /\ validation = NoValidation
    /\ event \in {[stage |-> "sample", d |-> d, by |-> "nobody",
                   trigger_output |-> json("null", 0), text |-> <<>>,
                   parsed |-> parse_error(0)] : d \in EventSamples}

outside_event ==
    <<client_vars, threads, monitor_vars, session, sampling, validation>>

\* the monitor builds the event of a firing cycle
build_event ==
    /\ event.stage = "sample"
    /\ \E now \in Timestamps :
         event' = [event EXCEPT !.stage = "event", !.by = "monitor",
                                !.trigger_output = output_trigger_event(event.d, now)]
    /\ UNCHANGED outside_event

\* print(json.dumps(trigger_event, indent=2))
print_event ==
    /\ event.stage = "event"
    /\ event' = [event EXCEPT !.stage = "text",
                              !.text = dumps(event.trigger_output, 0)]
    /\ UNCHANGED outside_event

\* format_trigger_event(data) called on the sample
format_event ==
    /\ event.stage = "sample"
    /\ \E now \in Timestamps :
         event' = [event EXCEPT !.stage = "text", !.by = "formatting",
                                !.trigger_output = output_trigger_event(event.d, now),
                                !.text = format_trigger_event(event.d, now)]
    /\ UNCHANGED outside_event

\* json.loads of the text by its reader
parse_event ==
    /\ event.stage = "text"
    /\ event' = [event EXCEPT !.stage = "parsed", !.parsed = loads(event.text)]
    /\ UNCHANGED outside_event

NextEvent ==
    \/ build_event
    \/ print_event
    \/ format_event
    \/ parse_event

SpecEvent == InitEvent /\ [][NextEvent]_vars

\* C28: the event built from a sample d has the members data and
\* date_triggered and its data is d; the event written as indented JSON and
\* parsed back is the event, so its data is again d.
C28_EventCarriesSample ==
    /\ event.stage \in {"event", "text", "parsed"} =>
          /\ dict_keys(event.trigger_output) = <<key_data, key_date_triggered>>
          /\ dict_get(event.trigger_output, key_data) = event.d
    /\ event.stage = "parsed" =>
          /\ event.parsed.ok
          /\ dict_get(event.parsed.val, key_data) = event.d
          /\ event.parsed.val = event.trigger_output

\* the sample of test_output_trigger_event, written and parsed back
C28_Witness ==
    /\ event.stage = "parsed"
    /\ dict_get(event.d, key_cpu) =
          json("dict", << <<<<"c", "p", "u", "_", "p", "e", "r", "c", "e", "n", "t">>,
                            json("float", 850)>> >>)
    /\ Len(event.text) > 60
    /\ event.parsed.ok

\* C29: a response without an error whose result member is absent gives an
\* empty value, not a failure: get_agent_info returns "unknown" for its
\* three fields and get_config the empty mapping; a field absent from a
\* present result is "unknown" and an absent config member is empty.
C29_AbsentResultIsEmpty ==
    (/\ last.op \in {"get_agent_info", "get_config"}
     /\ last.was_connected
     /\ last.response.t = "result_object"
     /\ last.response.result.kind \in {"absent", "mapping"}) =>
        /\ last.exc = NoError
        /\ last.op = "get_agent_info" =>
              /\ last.ret.kind = "AgentInfo"
              /\ \A key \in {"agent_id", "version", "environment"} :
                    last.ret[key] = IF key \in last.response.result.keys
                                    THEN key ELSE "unknown"
        /\ last.op = "get_config" =>
              /\ last.ret.kind = "config"
              /\ last.ret.config = IF "config" \in last.response.result.keys
                                   THEN "config" ELSE "empty"

\* ------------------------------------------------------------- session
\* A client just constructed, about to be used in a with block.
InitSession ==
    /\ new_client
    /\ threads = NoThreads
    /\ monitor_off
    /\ event = NoEvent
    /\ session = [pc |-> "out", entered |-> 0, connect_failed |-> FALSE,
                  ran |-> FALSE, outcome |-> "none", was_connected |-> FALSE,
                  pings |-> 0]
    /\ sampling = NoSampling
    /\ validation = NoValidation

outside_session == <<threads, monitor_vars, event, sampling, validation>>

\* connect() called by the program itself before its first with block, one
\* attempt at a time.
caller_connect ==
    /\ session.pc \in {"out", "preconnect"}
    /\ session.entered = 0
    /\ IF session.pc = "out" THEN connect ELSE connect_attempt
    /\ session' = [session EXCEPT !.pc = IF pc' = "connect" THEN "preconnect" ELSE "out"]
    /\ UNCHANGED outside_session

\* with client.session() as client: the generator starts and calls connect();
\* noted are the connection state found and the pings sent since.
session_enter ==
    /\ session.pc = "out"
    /\ session.entered < MaxSessions
    /\ connect
    /\ session' = [pc |-> IF pc' = "connect" THEN "connecting" ELSE "body",
                   entered |-> session.entered + 1, connect_failed |-> FALSE,
                   ran |-> FALSE, outcome |-> "none", was_connected |-> connected,
                   pings |-> request_id' - request_id]
    /\ UNCHANGED outside_session

\* connect() inside the try, one attempt at a time: when it returns the
\* generator yields and the body starts, when it raises the finally runs.
session_connect ==
    /\ session.pc = "connecting"
    /\ connect_attempt
    /\ LET now == [session EXCEPT !.pings = @ + request_id' - request_id]
       IN session' = IF pc' = "connect" THEN now
                     ELSE IF last'.exc = NoError THEN [now EXCEPT !.pc = "body"]
                     ELSE [now EXCEPT !.pc = "finally", !.connect_failed = TRUE,
                                      !.outcome = last'.exc]
    /\ UNCHANGED outside_session

\* The body of the with block, as the quick_ helpers have it: one operation,
\* which returns or raises.
session_body ==
    /\ session.pc = "body"
    /\ \/ \E name \in TriggerNames : report_trigger(name)
       \/ \E logs \in LogLists : upload_logs(logs)
       \/ get_agent_info
       \/ \E section \in Sections : get_config(section)
    /\ session' = [session EXCEPT !.pc = "finally", !.ran = TRUE,
                                  !.outcome = IF last'.exc = NoError
                                              THEN "returned" ELSE last'.exc]
    /\ UNCHANGED outside_session

\* The body cancelled while its operation blocks on the socket.
session_body_cancelled ==
    /\ session.pc = "body"
    /\ \E op \in RpcOps : interrupted(op, NoArg)
    /\ session' = [session EXCEPT !.pc = "finally", !.ran = TRUE,
                                  !.outcome = "KeyboardInterrupt"]
    /\ UNCHANGED outside_session

\* (variant: the connection state found on entry put back on exit)
session_exit_restoring ==
    /\ session.pc = "finally"
    /\ IF session.was_connected THEN UNCHANGED client_vars ELSE disconnect
    /\ session' = [session EXCEPT !.pc = "out"]
    /\ UNCHANGED outside_session

\* (variant: try/else in place of try/finally)
session_exit_on_success ==
    /\ session.pc = "finally"
    /\ IF session.outcome = "returned" THEN disconnect ELSE UNCHANGED client_vars
    /\ session' = [session EXCEPT !.pc = "out"]
    /\ UNCHANGED outside_session

\* finally: self.disconnect(); then what the block ended with goes on to the
\* caller
session_exit ==
    /\ session.pc = "finally"
    /\ disconnect
    /\ session' = [session EXCEPT !.pc = "out"]
    /\ UNCHANGED outside_session

\* is_connected() asked after the block
session_is_connected ==
    /\ session.pc = "out"
    /\ session.entered > 0
    /\ is_connected
    /\ UNCHANGED <<session, outside_session>>

NextSession ==
    \/ caller_connect
    \/ session_enter
    \/ session_connect
    \/ session_body
    \/ session_body_cancelled
    \/ session_exit
    \/ session_is_connected

SpecSession == InitSession /\ [][NextSession]_vars

\* C30: after a with block of session() has ended, whether its body
\* returned, raised, was cancelled, or connect() failed, is_connected() is
\* false; when connect() fails the body never runs and the ConnectionError
\* goes on to the caller; the body runs on a connected client only.
C30_SessionAlwaysDisconnects ==
    session.pc # "off" =>
        /\ (session.pc = "out" /\ session.entered > 0) =>
              /\ ~connected
              /\ session.outcome # "none"
              /\ last.op = "is_connected" => ~last.is_connected
        /\ session.connect_failed =>
              /\ ~session.ran
              /\ session.outcome = "ConnectionError"
        /\ session.pc = "body" => connected
        /\ session.ran => ~session.connect_failed

\* a block whose body was cancelled has ended and the client was asked
C30_Witness ==
    /\ session.pc = "out"
    /\ session.ran
    /\ session.outcome = "KeyboardInterrupt"
    /\ last.op = "is_connected"
    /\ ~connected

\* ------------------------------------------------------------- samplers
\* What one extractor's extract() does when safe_extract calls it: it returns
\* a value (a mapping, empty or not, None, a list) or it raises.  The
\* extractors of this repository catch their own errors; a subclass need not.
\* KeyboardInterrupt is the cancellation signal arriving while extract() runs.
value_of(t, filled) == [t |-> t, filled |-> filled]

EmptyDict == value_of("dict", FALSE)

ExtractorErrors == {"OSError", "KeyboardInterrupt"}

Extractions ==
    {[exc |-> NoError, value |-> v] :
        v \in {EmptyDict, value_of("dict", TRUE), value_of("None", FALSE),
               value_of("list", TRUE)}}
    \cup {[exc |-> e, value |-> value_of("None", FALSE)] : e \in ExtractorErrors}

\* isinstance(e, Exception)
is_Exception(exc) == exc \notin {NoError, "KeyboardInterrupt", "SystemExit"}

\* BaseExtractor.validate_data
validate_data(value) == value.t = "dict"

\* A safe_extract that hands on whatever extract() returned.
safe_extract_unvalidated(extraction) ==
    IF extraction.exc = NoError THEN extraction
    ELSE IF is_Exception(extraction.exc) THEN [exc |-> NoError, value |-> EmptyDict]
    ELSE extraction

\* BaseExtractor.safe_extract: what extract() returned if it is a mapping, {}
\* if it is not or if extract() raised an Exception; anything else that
\* extract() raised passes through.
safe_extract(extraction) ==
    IF extraction.exc = NoError
    THEN IF validate_data(extraction.value) THEN extraction
         ELSE [exc |-> NoError, value |-> EmptyDict]
    ELSE IF is_Exception(extraction.exc) THEN [exc |-> NoError, value |-> EmptyDict]
    ELSE extraction

\* The plugin's extractors, in the order the samplers call them.
ExtractorNames == <<"system", "cpu", "memory", "disk", "processes">>

\* The extract_* switches of the plugin's configuration that are set.
PluginConfigs == SUBSET {"extract_cpu", "extract_memory", "extract_disk", "extract_processes"}

\* self.config.get(key, False)
enabled(switches, key) == key \in switches

\* The sections extract_data asks for.
extract_data_sections(switches) ==
    [name \in {"system", "cpu", "memory", "disk", "processes"} |->
        \/ name = "system"
        \/ enabled(switches, "extract_cpu") /\ name = "cpu"
        \/ enabled(switches, "extract_memory") /\ name = "memory"
        \/ enabled(switches, "extract_disk") /\ name = "disk"
        \/ enabled(switches, "extract_processes") /\ name = "processes"]

\* The sections extract_data_for_monitoring asks for.
monitoring_sections(switches) ==
    [name \in {"system", "cpu", "memory", "disk", "processes"} |->
        \/ name \in {"system", "cpu", "memory"}
        \/ enabled(switches, "extract_disk") /\ name = "disk"
        \/ enabled(switches, "extract_processes") /\ name = "processes"]

\* The sampler's body: data = {'timestamp': now}, then data[name] =
\* safe_extract() for each section asked for, in order; the first exception
\* that leaves a safe_extract ends the sampler.  `extractions` is what each
\* extractor's extract() would do if called.
RECURSIVE fill(_, _, _, _)
fill(items, asked, extractions, i) ==
    IF i > Len(ExtractorNames) THEN [exc |-> NoError, items |-> items]
    ELSE LET name == ExtractorNames[i]
             got == safe_extract(extractions[name])
         IN IF ~asked[name] THEN fill(items, asked, extractions, i + 1)
            ELSE IF got.exc # NoError THEN [exc |-> got.exc, items |-> items]
            ELSE fill(Append(items, <<name, got.value>>), asked, extractions, i + 1)

sample_of(asked, extractions) ==
    fill(<<<<"timestamp", value_of("str", TRUE)>>>>, asked, extractions, 1)

InitSampler ==
    /\ new_client
    /\ threads = NoThreads
    /\ monitor_off
    /\ event = NoEvent
    /\ session = NoSession
    /\ sampling \in [pc : {"idle"}, config : PluginConfigs]
    /\ validation = NoValidation

outside_sampler == <<client_vars, threads, monitor_vars, event, session, validation>>

sampled(op, asked, extractions) ==
    LET out == sample_of(asked, extractions)
    IN [pc |-> "done", config |-> sampling.config, op |-> op,
        extractions |-> extractions, exc |-> out.exc, sample |-> out.items]

\* MachineDataExtractor.extract_data
extract_data ==
    /\ sampling.pc = "idle"
    /\ \E extractions \in [{"system", "cpu", "memory", "disk", "processes"} -> Extractions] :
          sampling' = sampled("extract_data", extract_data_sections(sampling.config),
                              extractions)
    /\ UNCHANGED outside_sampler

\* MachineDataExtractor.extract_data_for_monitoring
extract_data_for_monitoring ==
    /\ sampling.pc = "idle"
    /\ \E extractions \in [{"system", "cpu", "memory", "disk", "processes"} -> Extractions] :
          sampling' = sampled("extract_data_for_monitoring",
                              monitoring_sections(sampling.config), extractions)
    /\ UNCHANGED outside_sampler

NextSampler ==
    \/ extract_data
    \/ extract_data_for_monitoring

SpecSampler == InitSampler /\ [][NextSampler]_vars

\* the value under a key of the sample, or an absent marker
section(sample, key) ==
    IF \E i \in DOMAIN sample : sample[i][1] = key
    THEN sample[CHOOSE i \in DOMAIN sample : sample[i][1] = key][2]
    ELSE value_of("absent", FALSE)

\* an extractor failed: it raised an Exception or returned no mapping
failed_extraction(extraction) ==
    \/ is_Exception(extraction.exc)
    \/ extraction.exc = NoError /\ ~validate_data(extraction.value)

\* C31: whatever the extractors do short of a cancellation signal (each
\* returns a mapping, returns something that is no mapping, or raises an
\* Exception), extract_data_for_monitoring returns a sample with the keys
\* timestamp, system, cpu and memory; every section of it is a mapping, the
\* extractor's own when it returned one and the empty mapping when it failed;
\* and nothing but a cancellation signal ever leaves safe_extract.
C31_SamplingNeverAborts ==
    sampling.pc = "done" =>
        /\ sampling.exc \in {NoError, "KeyboardInterrupt"}
        /\ \A name \in DOMAIN sampling.extractions :
              safe_extract(sampling.extractions[name]).exc \in {NoError, "KeyboardInterrupt"}
        /\ (/\ sampling.op = "extract_data_for_monitoring"
            /\ \A name \in DOMAIN sampling.extractions :
                  sampling.extractions[name].exc # "KeyboardInterrupt") =>
              /\ sampling.exc = NoError
              /\ section(sampling.sample, "timestamp").t = "str"
              /\ \A name \in {"system", "cpu", "memory"} :
                    LET extraction == sampling.extractions[name]
                    IN section(sampling.sample, name) =
                          IF failed_extraction(extraction) THEN EmptyDict
                          ELSE extraction.value
              /\ \A i \in DOMAIN sampling.sample :
                    sampling.sample[i][1] # "timestamp" => sampling.sample[i][2].t = "dict"

\* the cpu extractor raised, the memory extractor returned no mapping, and
\* extract_data_for_monitoring returned
C31_Witness ==
    /\ sampling.pc = "done"
    /\ sampling.op = "extract_data_for_monitoring"
    /\ is_Exception(sampling.extractions["cpu"].exc)
    /\ sampling.extractions["memory"].exc = NoError
    /\ ~validate_data(sampling.extractions["memory"].value)
    /\ sampling.extractions["system"].value.filled
    /\ sampling.extractions["system"].exc = NoError
    /\ sampling.exc = NoError

\* C32: connect() stops at the first successful ping.  While it runs, every
\* ping so far has failed and each was followed by one sleep; when it returns
\* after its k-th ping, 1 <= k <= max_retries + 1, exactly k pings were sent,
\* k - 1 sleeps were made, the client is Connected and no error is raised;
\* when it raises, max_retries sleeps were made, none after the last attempt.
C32_StopsAtFirstSuccess ==
    /\ pc = "connect" =>
          /\ ~connected
          /\ request_id - entry.id = attempt
          /\ sleeps = attempt
          /\ attempt <= max_retries
    /\ (last.op = "connect" /\ ~last.was_connected /\ last.exc = NoError) =>
          /\ last.attempts \in 1..(max_retries + 1)
          /\ last.ids_used = last.attempts
          /\ last.sockets = last.attempts
          /\ last.slept = last.attempts - 1
          /\ last.response.t = "result_object"
          /\ last.is_connected
    /\ (last.op = "connect" /\ ~last.was_connected /\ last.exc # NoError) =>
          /\ last.slept = max_retries
          /\ last.attempts = max_retries + 1

\* connect() succeeded at its third ping, after two sleeps
C32_Witness ==
    /\ last.op = "connect"
    /\ last.exc = NoError
    /\ last.attempts = 3
    /\ last.slept = 2
    /\ connected

\* ----------------------------------------------------------- validators
\* Configurations handed to validate_config: any of the three keys present,
\* thresholds below, at, between, at and above the bounds 0 and 100, and an
\* interval below, at and above 0.
ThresholdValues == {-1, 0, 50, 100, 101}
IntervalValues == {-1, 0, 30}

ValidatedConfigs ==
    {config_of(keys, cpu, mem, interval) :
        keys \in SUBSET AllConfigKeys, cpu \in ThresholdValues,
        mem \in ThresholdValues, interval \in IntervalValues}

InitValidation ==
    /\ new_client
    /\ threads = NoThreads
    /\ monitor_off
    /\ event = NoEvent
    /\ session = NoSession
    /\ sampling = NoSampling
    /\ validation \in [pc : {"called"}, config : ValidatedConfigs]

outside_validation ==
    <<client_vars, threads, monitor_vars, event, session, sampling>>

\* what the caller of a validator sees: a return, or ValidationError with
\* its message
validated(op, message) ==
    [pc |-> "done", config |-> validation.config, op |-> op,
     exc |-> IF message = NoError THEN NoError ELSE "ValidationError",
     message |-> message]

\* validate_config(config)
run_validate_config ==
    /\ validation.pc = "called"
    /\ validation' = validated("validate_config",
                               validate_config_message(validation.config))
    /\ UNCHANGED outside_validation

\* validate_monitor_args(cpu_trigger, mem_trigger) called with the mapping's
\* own values
run_validate_monitor_args ==
    /\ validation.pc = "called"
    /\ validation.config.keys = AllConfigKeys
    /\ validation' = validated("validate_monitor_args",
                               validate_monitor_args(
                                   validation.config.cpu_trigger_percentage,
                                   validation.config.mem_trigger_percentage))
    /\ UNCHANGED outside_validation

\* validate_monitor_interval(interval), likewise
run_validate_monitor_interval ==
    /\ validation.pc = "called"
    /\ validation.config.keys = AllConfigKeys
    /\ validation' = validated("validate_monitor_interval",
                               validate_monitor_interval(
                                   validation.config.monitor_interval))
    /\ UNCHANGED outside_validation

NextValidation ==
    \/ run_validate_config
    \/ run_validate_monitor_args
    \/ run_validate_monitor_interval

SpecValidation == InitValidation /\ [][NextValidation]_vars

\* the value validate_config works with: the mapping's, or the default
effective(cfg, key, default) == IF key \in cfg.keys THEN cfg[key] ELSE default

\* C33: validate_config returns if and only if 0 <= cpu_trigger_percentage
\* <= 100, 0 <= mem_trigger_percentage <= 100 and monitor_interval >= 0, a
\* missing key counting as 0, 0 and 30; otherwise it raises ValidationError,
\* whose message names the CPU threshold if that is out of range, else the
\* memory threshold if that is, else the interval.
C33_ValidateConfig ==
    (validation.pc = "done" /\ validation.op = "validate_config") =>
        LET cpu == effective(validation.config, "cpu_trigger_percentage", 0)
            mem == effective(validation.config, "mem_trigger_percentage", 0)
            interval == effective(validation.config, "monitor_interval", 30)
            cpu_in == 0 <= cpu /\ cpu <= 100
            mem_in == 0 <= mem /\ mem <= 100
            interval_in == interval >= 0
        IN /\ validation.exc = NoError <=> (cpu_in /\ mem_in /\ interval_in)
           /\ validation.exc \in {NoError, "ValidationError"}
           /\ validation.exc = "ValidationError" =>
                 validation.message =
                    IF ~cpu_in
                    THEN "CPU trigger percentage must be between 0 and 100"
                    ELSE IF ~mem_in
                    THEN "Memory trigger percentage must be between 0 and 100"
                    ELSE "Monitor interval must be non-negative"

\* validate_config accepted a CPU threshold of 100 and a memory threshold of
\* 0 with the interval left to its default
C33_Witness ==
    /\ validation.pc = "done"
    /\ validation.op = "validate_config"
    /\ validation.config.keys = {"cpu_trigger_percentage", "mem_trigger_percentage"}
    /\ validation.config.cpu_trigger_percentage = 100
    /\ validation.config.mem_trigger_percentage = 0
    /\ validation.config.monitor_interval = -1
    /\ validation.exc = NoError

\* name occurs among the report_trigger calls of the current cycle
report_attempted(name) == \E i \in DOMAIN obs.reports : obs.reports[i] = name

\* C34: a monitor exists only after a connect() that succeeded, and from
\* then on, before and inside the loop, the client is Connected: no step
\* taken there clears the flag.  Hence every cycle that got past its upload
\* step made its upload_logs call, and every metric the evaluator found
\* fired had its report_trigger call made, whatever became of the agent
\* calls before.
C34_ConnectedWhileRunning ==
    /\ [](/\ mpc \in Running \cup {"constructed"} =>
                /\ connected
                /\ request_id >= 1
          /\ mpc \in {"check_cpu", "check_mem", "emit", "sleep"} => obs.uploads = 1
          /\ obs.cpu_fired => report_attempted("cpu_high")
          /\ obs.mem_fired => report_attempted("memory_high"))
    /\ [][(mpc \in Running) => (connected' = TRUE)]_vars

\* a cycle in which both report_trigger calls failed and both were made
C34_Witness ==
    /\ mpc \in {"emit", "sleep"}
    /\ connected
    /\ obs.uploads = 1
    /\ obs.reports = <<"cpu_high", "memory_high">>
    /\ obs.report_failures = 2
    /\ last.exc # NoError

\* how many metrics the evaluator found fired in the current cycle
fired_count == (IF obs.cpu_fired THEN 1 ELSE 0) + (IF obs.mem_fired THEN 1 ELSE 0)

\* how many times the event of the current cycle was handed out: callback
\* calls plus prints
outputs == obs.callbacks + (IF obs.lines = <<>> THEN 0 ELSE 1)

\* C35: in a cycle the report_trigger calls are as many as the metrics that
\* fired, "cpu_high" before "memory_high" when both did; at most one event is
\* built; and the callback or the print happens exactly once when at least
\* one metric fired, also when both did.
C35_OneReportPerMetricOneEvent ==
    cycle_over =>
        /\ Len(obs.reports) = fired_count
        /\ obs.reports =
              (IF obs.cpu_fired THEN <<"cpu_high">> ELSE <<>>)
              \o (IF obs.mem_fired THEN <<"memory_high">> ELSE <<>>)
        /\ obs.emitted <= 1
        /\ outputs <= 1
        /\ fired_count >= 1 => outputs = 1

\* C36: the loop is left only in a step in which a cancellation signal is
\* caught or an exception reaches the loop's handler, never otherwise; a
\* start_monitoring that entered its loop and has ended has returned only
\* after a cancellation; it returns, without raising, when one cancellation
\* signal ended the loop, and it raises when an exception did.
C36_NoNormalStop ==
    /\ [][(mpc \in Running /\ mpc' \notin Running) =>
             \/ mpc' = "stop_log" /\ obs'.cancelled # <<>> /\ obs'.original = NoError
             \/ mpc' = "error_log" /\ obs'.original # NoError /\ error' = obs'.original]_vars
    /\ []((monitoring_ended /\ cycle_count >= 1) =>
             /\ mpc = "stopped" => (obs.cancelled # <<>> /\ obs.original = NoError)
             /\ (Len(obs.cancelled) = 1 /\ obs.original = NoError) =>
                   (mpc = "stopped" /\ error = NoError)
             /\ obs.original # NoError => (mpc = "failed" /\ error # NoError))

\* C37: upload_logs looks at the connection state before it looks at its
\* entries: on a Disconnected client it fails with the not-connected
\* ConnectionError whatever the list holds, a malformed entry included, and
\* sends nothing; on a Connected client the empty list passes validation and
\* exactly one upload_logs request is sent.
C37_ConnectionCheckedBeforeEntries ==
    last.op = "upload_logs" =>
        /\ ~last.was_connected =>
              /\ last.exc = "ConnectionError"
              /\ last.cause = "not_connected"
              /\ last.ids_used = 0
              /\ last.sockets = 0
        /\ (last.was_connected /\ last.arg = <<>>) =>
              /\ last.exc # "ValueError"
              /\ last.ids_used = 1
              /\ last.sockets = 1
              /\ request.method = "upload_logs"
              /\ request.has_params
              /\ request.id = request_id

\* upload_logs([{level}]) on a Disconnected client
C37_Witness ==
    /\ last.op = "upload_logs"
    /\ ~last.was_connected
    /\ last.arg = <<{"level"}>>
    /\ last.exc = "ConnectionError"
    /\ ~connected

\* C38: a with block entered on a client that was already Connected sends no
\* ping on entry (connect() returns at once, the body starts on the Connected
\* client), and still disconnects on exit: once such a block has ended the
\* client is Disconnected and is_connected() answers False, although the
\* client was Connected before the block.
C38_SessionDoesNotRestore ==
    (session.pc \in {"connecting", "body", "finally", "out"}
     /\ session.entered > 0 /\ session.was_connected) =>
        /\ session.pings = 0
        /\ ~session.connect_failed
        /\ session.pc # "connecting"
        /\ session.pc = "body" =>
              /\ last.op = "connect"
              /\ last.ids_used = 0
              /\ last.sockets = 0
              /\ connected
        /\ session.pc = "out" =>
              /\ session.ran
              /\ ~connected
              /\ last.op = "is_connected" => ~last.is_connected

\* a block entered on a Connected client has ended and the client was asked
C38_Witness ==
    /\ session.pc = "out"
    /\ session.entered = 1
    /\ session.was_connected
    /\ session.pings = 0
    /\ last.op = "is_connected"
    /\ ~last.is_connected

====
